---- MODULE Spec2Model ----
(***************************************************************************)
(* The adapter engine of the chat-completions gateway: the streaming       *)
(* response translators of the Anthropic adapter (Messages API and         *)
(* Responses API) as generator state machines, and the adapters' forward   *)
(* operation.                                                              *)
(*                                                                         *)
(* Bytes are modelled as runs: one element of a byte sequence stands for   *)
(* a fixed run of bytes that contains no line terminator (the "data: "     *)
(* prefix, a JSON text, a part of a JSON text cut inside a two-byte UTF-8  *)
(* character), or for the single byte LF or CR.  The `created` timestamp   *)
(* of a chunk is left out of the chunk record.                             *)
(***************************************************************************)
EXTENDS Integers, Sequences, FiniteSets, TLC

\* ---------------------------------------------------------------- bounds
\* lines the upstream produces in one response body
MaxLines == 3
\* byte runs the upstream may have in flight (an input chunk is at most this)
MaxWire == 6

\* ------------------------------------------------------------- constants
InboundModel == "m1"
\* the identifier _create_chat_completion_id returns: "chatcmpl-" and 24 random
\* characters; the translators never read it, one value stands for all
Ids == {"chatcmpl-a1B2c3D4e5F6g7H8i9J0k1L2"}

LF == "LF"
CR == "CR"
DataPrefix == "data: "

\* ------------------------------------------------------------ byte level
\* the runs that end with the first byte of a two-byte character, the runs
\* that start with its second byte, and a byte that is never valid UTF-8
Utf8Lead == {"{content_block_delta:thinking_delta:\\xC3"}
Utf8Cont == {"\\xA9}"}
Utf8Never == {"\\xFF"}

\* bytes.decode("utf-8") succeeds
Utf8Valid(line) ==
    \A i \in 1..Len(line) :
        /\ line[i] \notin Utf8Never
        /\ line[i] \in Utf8Lead => (i < Len(line) /\ line[i + 1] \in Utf8Cont)
        /\ line[i] \in Utf8Cont => (i > 1 /\ line[i - 1] \in Utf8Lead)

Whitespace == {CR, LF, " "}

RECURSIVE LStrip(_)
LStrip(s) == IF s # <<>> /\ Head(s) \in Whitespace THEN LStrip(Tail(s)) ELSE s

RECURSIVE RStrip(_)
RStrip(s) ==
    IF s # <<>> /\ s[Len(s)] \in Whitespace
    THEN RStrip(SubSeq(s, 1, Len(s) - 1))
    ELSE s

\* bytes.strip() / str.strip()
Strip(s) == RStrip(LStrip(s))

\* a loop condition that leaves the newest complete line in the buffer
HasLFBeforeNewestLine(buf) == \E i \in 1..Len(buf) : \E j \in (i + 1)..Len(buf) :
                                  buf[i] = LF /\ buf[j] = LF

HasLF(buf) == \E i \in 1..Len(buf) : buf[i] = LF

FirstLF(buf) == CHOOSE i \in 1..Len(buf) : buf[i] = LF /\ \A j \in 1..(i - 1) : buf[j] # LF

\* a split that takes the newest complete line of the buffer first
SplitLineNewestFirst(buf) ==
    LET last == CHOOSE i \in 1..Len(buf) : buf[i] = LF /\ \A j \in (i + 1)..Len(buf) : buf[j] # LF
        before == {i \in 1..(last - 1) : buf[i] = LF}
        from == IF before = {} THEN 0 ELSE CHOOSE i \in before : \A j \in before : j <= i
    IN [line |-> SubSeq(buf, from + 1, last - 1),
        rest |-> SubSeq(buf, 1, from) \o SubSeq(buf, last + 1, Len(buf))]

\* buffer.split(b"\n", 1)
SplitLine(buf) ==
    [line |-> SubSeq(buf, 1, FirstLF(buf) - 1),
     rest |-> SubSeq(buf, FirstLF(buf) + 1, Len(buf))]

\* ------------------------------------------------------------ JSON level
\* A decoded JSON value.  j is "object" for a non-empty object, "array" for
\* a non-empty array, "empty" for {} (falsy).  The fields of an object are
\* flattened; "absent" stands for a missing key.
NoEvent ==
    [j |-> "object", type |-> "absent",
     block_type |-> "absent", block_id |-> "absent", block_name |-> "absent",
     has_delta |-> FALSE, delta_type |-> "absent",
     delta_has_text |-> FALSE, delta_text |-> "",
     delta_thinking |-> "", delta_partial_json |-> "",
     stop_reason |-> "absent"]

JsonArray == [j |-> "array"]
JsonEmpty == [j |-> "empty"]
None == [j |-> "none"]

\* json.loads of the text after the prefix: [ok |-> FALSE] is JSONDecodeError
JsonLoads(data_str) ==
    CASE data_str = <<"{message_start}">> ->
           [ok |-> TRUE, v |-> [NoEvent EXCEPT !.type = "message_start"]]
      [] data_str = <<"{content_block_start:tool_use:toolu_1:get_weather}">> ->
           [ok |-> TRUE, v |-> [NoEvent EXCEPT !.type = "content_block_start",
                                  !.block_type = "tool_use", !.block_id = "toolu_1",
                                  !.block_name = "get_weather"]]
      [] data_str = <<"{content_block_start:thinking}">> ->
           [ok |-> TRUE, v |-> [NoEvent EXCEPT !.type = "content_block_start",
                                  !.block_type = "thinking"]]
      [] data_str = <<"{content_block_start:text}">> ->
           [ok |-> TRUE, v |-> [NoEvent EXCEPT !.type = "content_block_start",
                                  !.block_type = "text"]]
      [] data_str = <<"{content_block_delta:text_delta:Hello}">> ->
           [ok |-> TRUE, v |-> [NoEvent EXCEPT !.type = "content_block_delta",
                                  !.has_delta = TRUE, !.delta_type = "text_delta",
                                  !.delta_has_text = TRUE, !.delta_text = "Hello"]]
      [] data_str = <<"{content_block_delta:thinking_delta:\\xC3", "\\xA9}">> ->
           [ok |-> TRUE, v |-> [NoEvent EXCEPT !.type = "content_block_delta",
                                  !.has_delta = TRUE, !.delta_type = "thinking_delta",
                                  !.delta_thinking = "e-acute"]]
      [] data_str = <<"{content_block_delta:input_json_delta:{\"a\"}">> ->
           [ok |-> TRUE, v |-> [NoEvent EXCEPT !.type = "content_block_delta",
                                  !.has_delta = TRUE, !.delta_type = "input_json_delta",
                                  !.delta_partial_json = "{\"a\""]]
      [] data_str = <<"{message_delta:end_turn}">> ->
           [ok |-> TRUE, v |-> [NoEvent EXCEPT !.type = "message_delta",
                                  !.has_delta = TRUE, !.stop_reason = "end_turn"]]
      [] data_str = <<"{message_delta:tool_use}">> ->
           [ok |-> TRUE, v |-> [NoEvent EXCEPT !.type = "message_delta",
                                  !.has_delta = TRUE, !.stop_reason = "tool_use"]]
      [] data_str = <<"{message_delta:max_tokens}">> ->
           [ok |-> TRUE, v |-> [NoEvent EXCEPT !.type = "message_delta",
                                  !.has_delta = TRUE, !.stop_reason = "max_tokens"]]
      [] data_str = <<"{message_stop}">> ->
           [ok |-> TRUE, v |-> [NoEvent EXCEPT !.type = "message_stop"]]
      [] data_str = <<"{response.created}">> ->
           [ok |-> TRUE, v |-> [NoEvent EXCEPT !.type = "response.created"]]
      [] data_str = <<"{response.content.delta:Hello}">> ->
           [ok |-> TRUE, v |-> [NoEvent EXCEPT !.type = "response.content.delta",
                                  !.has_delta = TRUE, !.delta_has_text = TRUE,
                                  !.delta_text = "Hello"]]
      [] data_str = <<"{response.content.delta:}">> ->
           [ok |-> TRUE, v |-> [NoEvent EXCEPT !.type = "response.content.delta",
                                  !.has_delta = TRUE, !.delta_has_text = TRUE,
                                  !.delta_text = ""]]
      [] data_str = <<"{response.output_text.delta:Hi}">> ->
           [ok |-> TRUE, v |-> [NoEvent EXCEPT !.type = "response.output_text.delta",
                                  !.has_delta = TRUE, !.delta_has_text = TRUE,
                                  !.delta_text = "Hi"]]
      [] data_str = <<"{response.done}">> ->
           [ok |-> TRUE, v |-> [NoEvent EXCEPT !.type = "response.done"]]
      [] data_str = <<"[1]">> -> [ok |-> TRUE, v |-> JsonArray]
      [] data_str = <<"{}">> -> [ok |-> TRUE, v |-> JsonEmpty]
      [] OTHER -> [ok |-> FALSE, v |-> None]

\* Python truthiness of a parse result
Truthy(v) == v.j \in {"object", "array"}


\* ----------------------------------------------------------- chunk level
EmptyDelta == [k |-> "empty"]
RoleDelta == [k |-> "role", role |-> "assistant", content |-> ""]
ContentDelta(text) == [k |-> "content", content |-> text]
ThinkingDelta(text) == [k |-> "thinking", thinking |-> text]
ToolStartDelta(index, id, name) ==
    [k |-> "tool_calls", index |-> index, has_id |-> TRUE, id |-> id,
     name |-> name, arguments |-> ""]
ToolArgsDelta(index, partial_json) ==
    [k |-> "tool_calls", index |-> index, has_id |-> FALSE, id |-> "absent",
     name |-> "absent", arguments |-> partial_json]

\* a chunk tagged with the model name the upstream knows
BuildCompletionChunkApiModel(id, delta, finish_reason) ==
    [kind |-> "chunk", id |-> id, model |-> "api-model-x",
     delta |-> delta, finish_reason |-> finish_reason]

\* _build_completion_chunk: finish_reason "null" is JSON null
BuildCompletionChunk(id, delta, finish_reason) ==
    [kind |-> "chunk", id |-> id, model |-> InboundModel,
     delta |-> delta, finish_reason |-> finish_reason]

\* the frame  data: [DONE]\n\n
Sentinel == [kind |-> "done"]

\* what a handler returns when it returns None
NoChunk == [kind |-> "none"]

\* -------------------------------------------- Messages API stream decoder
\* AnthropicResponseAdapter._parse_sse_line, on a line that decodes as UTF-8
ParseSseLine(line) ==
    LET line_str == Strip(line) IN
    IF line_str # <<>> /\ Head(line_str) = DataPrefix
    THEN LET r == JsonLoads(Tail(line_str)) IN IF r.ok THEN r.v ELSE None
    ELSE None

\* a tool-call index that is not brought back to start at 0
CurrentToolIndexNoDecrement(count) == count

\* the index of the tool call the stream is in: self._tool_calls_count - 1
CurrentToolIndex(count) == count - 1

\* AnthropicResponseAdapter._handle_anthropic_event, on an object: the chunk
\* returned and the value of self._tool_calls_count afterwards
HandleAnthropicEvent(id, event, count) ==
    CASE event.type = "message_start" ->
           [chunk |-> BuildCompletionChunk(id, RoleDelta, "null"), count |-> count]
      [] event.type = "content_block_start" ->
           IF event.block_type = "tool_use"
           THEN [chunk |-> BuildCompletionChunk(id,
                              ToolStartDelta(CurrentToolIndex(count + 1),
                                             IF event.block_id = "absent" THEN "" ELSE event.block_id,
                                             IF event.block_name = "absent" THEN "" ELSE event.block_name),
                              "null"),
                 count |-> count + 1]
           ELSE IF event.block_type = "thinking"
           THEN [chunk |-> BuildCompletionChunk(id, ThinkingDelta(""), "null"), count |-> count]
           ELSE [chunk |-> NoChunk, count |-> count]
      [] event.type = "content_block_delta" ->
           IF event.delta_type = "text_delta"
           THEN [chunk |-> BuildCompletionChunk(id, ContentDelta(event.delta_text), "null"),
                 count |-> count]
           ELSE IF event.delta_type = "thinking_delta"
           THEN [chunk |-> BuildCompletionChunk(id, ThinkingDelta(event.delta_thinking), "null"),
                 count |-> count]
           ELSE IF event.delta_type = "input_json_delta"
           THEN [chunk |-> BuildCompletionChunk(id,
                              ToolArgsDelta(CurrentToolIndex(count), event.delta_partial_json), "null"),
                 count |-> count]
           ELSE [chunk |-> NoChunk, count |-> count]
      [] event.type = "message_delta" ->
           IF event.stop_reason = "end_turn"
           THEN [chunk |-> BuildCompletionChunk(id, EmptyDelta, "stop"), count |-> count]
           ELSE IF event.stop_reason = "tool_use"
           THEN [chunk |-> BuildCompletionChunk(id, EmptyDelta, "tool_calls"), count |-> count]
           ELSE [chunk |-> NoChunk, count |-> count]
      [] OTHER -> [chunk |-> NoChunk, count |-> count]

\* the finish reason of the chunk generate() adds after the read loop
MessagesFinalReason(count) == IF count = 0 THEN "stop" ELSE "tool_calls"

\* ------------------------------------------- Responses API stream decoder
\* AnthropicResponsesResponseAdapter._parse_sse_line
ResponsesParseSseLine(line) ==
    LET line_str == Strip(line) IN
    IF line_str # <<>> /\ Head(line_str) = DataPrefix
    THEN IF Tail(line_str) = <<"[DONE]">>
         THEN None
         ELSE LET r == JsonLoads(Tail(line_str)) IN IF r.ok THEN r.v ELSE None
    ELSE None

\* AnthropicResponsesResponseAdapter._handle_responses_event, on an object
HandleResponsesEvent(id, event, count) ==
    IF event.type = "response.created"
    THEN [chunk |-> BuildCompletionChunk(id, RoleDelta, "null"), count |-> count]
    ELSE IF event.type = "response.content.delta" /\ event.delta_text # ""
    THEN [chunk |-> BuildCompletionChunk(id, ContentDelta(event.delta_text), "null"),
          count |-> count]
    ELSE IF event.type = "response.done"
    THEN [chunk |-> BuildCompletionChunk(id, EmptyDelta, "stop"), count |-> count]
    ELSE IF event.has_delta /\ event.delta_has_text
    THEN [chunk |-> BuildCompletionChunk(id, ContentDelta(event.delta_text), "null"),
          count |-> count]
    ELSE [chunk |-> NoChunk, count |-> count]

ResponsesFinalReason(count) == "stop"

\* --------------------------------------- the translator pair of a request
\* AnthropicAdapter.__init__ picks the pair by api_format
ParseLine(fmt, line) ==
    IF fmt = "responses" THEN ResponsesParseSseLine(line) ELSE ParseSseLine(line)

HandleEvent(fmt, id, event, count) ==
    IF fmt = "responses"
    THEN HandleResponsesEvent(id, event, count)
    ELSE HandleAnthropicEvent(id, event, count)

FinalReason(fmt, count) ==
    IF fmt = "responses" THEN ResponsesFinalReason(count) ELSE MessagesFinalReason(count)

\* ------------------------------------------------------- generate() steps
\* a buffer that forgets the unterminated rest of the previous input chunk
BufferAppendDropsRest(buf, chunk) == chunk

\* buffer += chunk
BufferAppend(buf, chunk) == buf \o chunk

\* what generate() yields after the read loop: the final chunk if
\* events > 0, then the sentinel
FinalFrames(fmt, id, ev_count, count) ==
    IF ev_count > 0
    THEN <<BuildCompletionChunk(id, EmptyDelta, FinalReason(fmt, count)), Sentinel>>
    ELSE <<Sentinel>>

\* The body of the while loop of generate() on the first line of the buffer:
\* split, skip a blank line, parse, count the event when LOG_COMPLETION is
\* set, handle.  exc names the exception that leaves the loop ("none": no
\* exception), chunk is the chunk yielded (NoChunk: the line yields nothing).
LineStep(fmt, id, log, buf, ev_count, count) ==
    LET line == SplitLine(buf).line
        rest == SplitLine(buf).rest
        skip == [buffer |-> rest, events |-> ev_count, count |-> count,
                 chunk |-> NoChunk, exc |-> "none"]
    IN
    IF Strip(line) = <<>>
    THEN skip
    ELSE IF ~Utf8Valid(line)
    THEN [skip EXCEPT !.exc = "UnicodeDecodeError"]
    ELSE LET event_data == ParseLine(fmt, line)
             counted == IF log THEN ev_count + 1 ELSE ev_count
         IN
         IF ~Truthy(event_data)
         THEN skip
         ELSE IF event_data.j # "object"
         THEN [skip EXCEPT !.events = counted, !.exc = "AttributeError"]
         ELSE LET h == HandleEvent(fmt, id, event_data, count) IN
              [buffer |-> rest, events |-> counted, count |-> h.count,
               chunk |-> h.chunk, exc |-> "none"]

\* --------------------------------------------------------- upstream body
Line(body) == <<DataPrefix>> \o body \o <<LF>>

\* the lines a Messages API upstream may send
MessagesLines ==
    { Line(<<"{message_start}">>),
      Line(<<"{content_block_start:tool_use:toolu_1:get_weather}">>),
      Line(<<"{content_block_delta:text_delta:Hello}">>),
      Line(<<"{content_block_delta:thinking_delta:\\xC3", "\\xA9}">>),
      Line(<<"{content_block_delta:input_json_delta:{\"a\"}">>),
      Line(<<"{message_delta:end_turn}">>),
      Line(<<"{message_delta:tool_use}">>),
      Line(<<"{message_delta:max_tokens}">>),
      Line(<<"{oops">>),
      Line(<<"[1]">>),
      Line(<<"\\xFF">>),
      <<CR, LF>> }

\* the lines a Responses API upstream may send
ResponsesLines ==
    { Line(<<"{response.created}">>),
      Line(<<"{response.content.delta:Hello}">>),
      Line(<<"{response.content.delta:}">>),
      Line(<<"{response.output_text.delta:Hi}">>),
      Line(<<"{response.done}">>),
      Line(<<"[DONE]">>),
      Line(<<"{oops">>),
      Line(<<"[1]">>),
      <<LF>> }

\* the lines a Kimi upstream may send: Chat Completions chunks, each followed
\* by a blank line, with LF or CR LF line ends; its sentinel; bytes that are
\* not UTF-8
KimiLines ==
    { Line(<<"{chunk_1}">>),
      <<DataPrefix, "{chunk_2}", CR, LF>>,
      Line(<<"[DONE]">>),
      Line(<<"\\xFF">>),
      <<LF>>,
      <<CR, LF>> }

UpstreamLines(fmt) ==
    CASE fmt = "responses" -> ResponsesLines
      [] fmt = "kimi" -> KimiLines
      [] OTHER -> MessagesLines

\* ------------------------------------------------------------------ state
VARIABLES
    api_format,         \* model_config.api_format or "messages"
    log_completion,     \* current_app.config["LOG_COMPLETION"]
    pc,                 \* where generate() is
    chat_completion_id, \* self._chat_completion_id
    tool_calls_count,   \* self._tool_calls_count
    events,             \* generate(): events
    buffer,             \* generate(): buffer
    out,                \* the frames yielded to the consumer, in order
    wire,               \* bytes the upstream has sent and generate() has not read
    received,           \* all bytes iter_content has delivered
    lines_sent,         \* lines the upstream has produced
    upstream_closed,    \* upstream_resp.close() was called
    raised,             \* the exception generate() ended with, or "none"
    fw_pc,              \* forward(): "idle" before the call, "done" after it
    fw_backend,         \* the adapter class that handles the request
    fw_config,          \* what the model config and the settings provide
    fw_request,         \* the shape of the inbound request body
    fw_status,          \* resp.status_code of the upstream call (0: no call)
    fw_result,          \* what forward() returned or raised
    upstream_calls,     \* calls of requests.request made by forward()
    translator_invoked, \* adapt_response was called
    payload,            \* the JSON body of the inbound request
    fw_options,         \* the optional fields of the model config
    request_kwargs,     \* what adapt_request returned or raised
    document,           \* the YAML document at MODEL_CONFIG_PATH
    registry,           \* blueprint._registry: None, or the loaded ModelRegistry
    op,                 \* the last call on the registry or the factory and its outcome
    requests,           \* per request: where catch_all / generate() is, and its locals
    adapters,           \* per adapter object: the attributes of its response adapter
    allocated           \* adapter objects constructed so far

streamvars == <<api_format, log_completion, pc, chat_completion_id, tool_calls_count,
                events, buffer, out, wire, received, lines_sent, upstream_closed, raised>>

fwvars == <<fw_pc, fw_backend, fw_config, fw_request, fw_status, fw_result,
            upstream_calls, translator_invoked, payload, fw_options, request_kwargs>>

regvars == <<document, registry, op>>

servevars == <<requests, adapters, allocated>>

vars == <<streamvars, fwvars, regvars, requests, adapters, allocated>>

\* the registry plays no part: the adapter already holds its model config
NoDocument == [kind |-> "none", entries |-> <<>>]
NotLoaded == [loaded |-> FALSE]
NoOp == [kind |-> "none"]

RegistryIdle ==
    /\ document = NoDocument
    /\ registry = NotLoaded
    /\ op = NoOp

\* the request body is looked at only through its shape fw_request
AdaptIdle ==
    /\ payload = [keys |-> {}]
    /\ fw_options = [kind |-> "none"]
    /\ request_kwargs = [kind |-> "none"]

\* no request is being served by catch_all
ServeIdle ==
    /\ requests = <<>>
    /\ adapters = <<>>
    /\ allocated = 0

\* forward() of an Anthropic adapter has returned the streaming response
StreamReturned ==
    /\ fw_pc = "done"
    /\ fw_backend = "anthropic"
    /\ fw_config = [api_key |-> TRUE, base_url |-> TRUE, reasoning_effort |-> FALSE,
                    token_ok |-> TRUE]
    /\ fw_request = [has_system |-> FALSE, has_input |-> TRUE, has_user |-> FALSE]
    /\ fw_status = 200
    /\ fw_result = [kind |-> "stream", status |-> 200, exc |-> "none"]
    /\ upstream_calls = 1
    /\ translator_invoked = TRUE
    /\ AdaptIdle

Init ==
    /\ api_format \in {"messages", "responses"}
    /\ log_completion \in BOOLEAN
    /\ pc = "unstarted"
    /\ chat_completion_id = "None"
    /\ tool_calls_count = 0
    /\ events = 0
    /\ buffer = <<>>
    /\ out = <<>>
    /\ wire = <<>>
    /\ received = <<>>
    /\ lines_sent = 0
    /\ upstream_closed = FALSE
    /\ raised = "none"
    /\ StreamReturned
    /\ RegistryIdle
    /\ ServeIdle

\* the first next(): generate() runs up to the first read of the body
Start ==
    /\ pc = "unstarted"
    /\ \E id \in Ids : chat_completion_id' = id
    /\ tool_calls_count' = 0
    /\ events' = 0
    /\ buffer' = <<>>
    /\ pc' = "read"
    /\ UNCHANGED <<api_format, log_completion, out, wire, received, lines_sent,
                   upstream_closed, raised>>
    /\ UNCHANGED <<fwvars, regvars, servevars>>

\* the upstream writes one more line of its body
UpstreamSend ==
    /\ pc = "read"
    /\ lines_sent < MaxLines
    /\ \E seg \in UpstreamLines(api_format) :
          /\ Len(wire) + Len(seg) <= MaxWire
          /\ wire' = wire \o seg
    /\ lines_sent' = lines_sent + 1
    /\ UNCHANGED <<api_format, log_completion, pc, chat_completion_id, tool_calls_count,
                   events, buffer, out, received, upstream_closed, raised>>
    /\ UNCHANGED <<fwvars, regvars, servevars>>

\* iter_content gives the next input chunk: buffer += chunk
ReadChunk ==
    /\ pc = "read"
    /\ \E k \in 1..Len(wire) :
          /\ buffer' = BufferAppend(buffer, SubSeq(wire, 1, k))
          /\ received' = received \o SubSeq(wire, 1, k)
          /\ wire' = SubSeq(wire, k + 1, Len(wire))
    /\ pc' = "lines"
    /\ UNCHANGED <<api_format, log_completion, chat_completion_id, tool_calls_count,
                   events, out, lines_sent, upstream_closed, raised>>
    /\ UNCHANGED <<fwvars, regvars, servevars>>

\* the exception leaves generate(): only GeneratorExit is caught, the
\* finally clause closes the upstream response
Raise(exc) ==
    /\ pc' = "raised"
    /\ raised' = exc
    /\ upstream_closed' = TRUE
    /\ wire' = <<>>

\* one pass of the body of  while b"\n" in buffer
ProcessLine ==
    /\ pc = "lines"
    /\ HasLF(buffer)
    /\ LET r == LineStep(api_format, chat_completion_id, log_completion,
                         buffer, events, tool_calls_count) IN
       /\ buffer' = r.buffer
       /\ events' = r.events
       /\ tool_calls_count' = r.count
       /\ IF r.exc # "none"
          THEN Raise(r.exc) /\ UNCHANGED out
          ELSE /\ UNCHANGED <<raised, upstream_closed, wire>>
               /\ IF r.chunk # NoChunk
                  THEN out' = Append(out, r.chunk) /\ pc' = "yield_chunk"
                  ELSE UNCHANGED <<out, pc>>
    /\ UNCHANGED <<api_format, log_completion, chat_completion_id, received, lines_sent>>
    /\ UNCHANGED <<fwvars, regvars, servevars>>

\* no line terminator is left in the buffer: back to iter_content
WhileExit ==
    /\ pc = "lines"
    /\ ~HasLF(buffer)
    /\ pc' = "read"
    /\ UNCHANGED <<api_format, log_completion, chat_completion_id, tool_calls_count, events,
                   buffer, out, wire, received, lines_sent, upstream_closed, raised>>
    /\ UNCHANGED <<fwvars, regvars, servevars>>

\* next() after a chunk was yielded (completion_msg is only logged)
ResumeAfterChunk ==
    /\ pc = "yield_chunk"
    /\ pc' = "lines"
    /\ UNCHANGED <<api_format, log_completion, chat_completion_id, tool_calls_count, events,
                   buffer, out, wire, received, lines_sent, upstream_closed, raised>>
    /\ UNCHANGED <<fwvars, regvars, servevars>>

\* an end of the body that hands the bytes left in the buffer to the loop as
\* a last line
EndOfBodyFlushes ==
    /\ pc = "read"
    /\ IF buffer # <<>>
       THEN pc' = "lines" /\ buffer' = buffer \o <<LF>>
       ELSE pc' = "final" /\ buffer' = buffer
    /\ wire' = <<>>
    /\ UNCHANGED <<api_format, log_completion, chat_completion_id, tool_calls_count, events,
                   out, received, lines_sent, upstream_closed, raised>>
    /\ UNCHANGED <<fwvars, regvars, servevars>>

\* iter_content is exhausted: the upstream closed the body
EndOfBody ==
    /\ pc = "read"
    /\ pc' = "final"
    /\ wire' = <<>>
    /\ UNCHANGED <<api_format, log_completion, chat_completion_id, tool_calls_count, events,
                   buffer, out, received, lines_sent, upstream_closed, raised>>
    /\ UNCHANGED <<fwvars, regvars, servevars>>

\* iter_content raises: the read of the body failed
ReadFail ==
    /\ pc = "read"
    /\ Raise("ChunkedEncodingError")
    /\ UNCHANGED <<api_format, log_completion, chat_completion_id, tool_calls_count, events,
                   buffer, out, received, lines_sent>>
    /\ UNCHANGED <<fwvars, regvars, servevars>>

\* after the loop: the final chunk if events > 0, else the sentinel
AfterLoop ==
    /\ pc = "final"
    /\ out' = Append(out, Head(FinalFrames(api_format, chat_completion_id, events,
                                            tool_calls_count)))
    /\ pc' = IF events > 0 THEN "yield_final" ELSE "yield_done"
    /\ UNCHANGED <<api_format, log_completion, chat_completion_id, tool_calls_count, events,
                   buffer, wire, received, lines_sent, upstream_closed, raised>>
    /\ UNCHANGED <<fwvars, regvars, servevars>>

\* next() after the final chunk: the sentinel
ResumeAfterFinal ==
    /\ pc = "yield_final"
    /\ out' = Append(out, Sentinel)
    /\ pc' = "yield_done"
    /\ UNCHANGED <<api_format, log_completion, chat_completion_id, tool_calls_count, events,
                   buffer, wire, received, lines_sent, upstream_closed, raised>>
    /\ UNCHANGED <<fwvars, regvars, servevars>>

\* next() after the sentinel: generate() returns through finally
ResumeAfterDone ==
    /\ pc = "yield_done"
    /\ pc' = "exhausted"
    /\ upstream_closed' = TRUE
    /\ wire' = <<>>
    /\ UNCHANGED <<api_format, log_completion, chat_completion_id, tool_calls_count, events,
                   buffer, out, received, lines_sent, raised>>
    /\ UNCHANGED <<fwvars, regvars, servevars>>

\* close() of the generator while it is suspended at a yield: GeneratorExit
\* is raised there and turned into ClientClosedConnection
Abandon ==
    /\ pc \in {"yield_chunk", "yield_final", "yield_done"}
    /\ Raise("ClientClosedConnection")
    /\ UNCHANGED <<api_format, log_completion, chat_completion_id, tool_calls_count, events,
                   buffer, out, received, lines_sent>>
    /\ UNCHANGED <<fwvars, regvars, servevars>>

\* close() of the generator before its first next(): its body never runs
AbandonUnstarted ==
    /\ pc = "unstarted"
    /\ pc' = "closed_unstarted"
    /\ UNCHANGED <<api_format, log_completion, chat_completion_id, tool_calls_count, events,
                   buffer, out, wire, received, lines_sent, upstream_closed, raised>>
    /\ UNCHANGED <<fwvars, regvars, servevars>>

Next ==
    \/ Start
    \/ UpstreamSend
    \/ ReadChunk
    \/ ProcessLine
    \/ WhileExit
    \/ ResumeAfterChunk
    \/ EndOfBody
    \/ ReadFail
    \/ AfterLoop
    \/ ResumeAfterFinal
    \/ ResumeAfterDone
    \/ Abandon
    \/ AbandonUnstarted

Spec == Init /\ [][Next]_vars

\* ------------------------------------------------------ Adapter.forward
Backends == {"azure", "anthropic", "kimi"}

\* status codes the upstream may answer with
Statuses == {200, 201, 400, 401, 403, 404, 429, 500, 503}

\* ServiceConfigurationError and CursorConfigurationError, the subclasses of
\* ConfigurationError
ConfigurationErrors == {"ServiceConfigurationError", "CursorConfigurationError"}

AdaptRaises(exc) == [ok |-> FALSE, exc |-> exc, body |-> [kind |-> "none"]]

\* azure RequestAdapter.adapt: instructions is None without a system or
\* developer message, input is None without input items, prompt_cache_key is
\* the request's user field; summary level, verbosity and truncation are
\* taken from valid settings. The API key is settings["AZURE_API_KEY"], which
\* settings.py defaults to "change_me": adapt never tests it
AzureAdapt(req, cfg) ==
    IF ~cfg.reasoning_effort
    THEN AdaptRaises("CursorConfigurationError")
    ELSE [ok |-> TRUE, exc |-> "none",
          body |-> [kind |-> "responses",
                    instructions |-> IF req.has_system THEN "str" ELSE "None",
                    input |-> IF req.has_input THEN "list" ELSE "None",
                    tools |-> "list",
                    prompt_cache_key |-> IF req.has_user THEN "str" ELSE "None"]]

\* AnthropicRequestAdapter.adapt
AnthropicAdapt(req, cfg) ==
    IF ~cfg.api_key
    THEN AdaptRaises("ServiceConfigurationError")
    ELSE [ok |-> TRUE, exc |-> "none", body |-> [kind |-> "messages"]]

\* AnthropicResponsesRequestAdapter.adapt: the name ServiceConfigurationError
\* is bound only by the import inside the branch for a missing API key
AnthropicResponsesAdapt(req, cfg) ==
    IF ~cfg.api_key
    THEN AdaptRaises("ServiceConfigurationError")
    ELSE IF ~cfg.base_url
    THEN AdaptRaises("UnboundLocalError")
    ELSE IF ~cfg.token_ok
    THEN AdaptRaises("ServiceConfigurationError")
    ELSE [ok |-> TRUE, exc |-> "none", body |-> [kind |-> "responses_text"]]

\* KimiRequestAdapter.adapt
KimiAdapt(req, cfg) ==
    IF ~cfg.api_key
    THEN AdaptRaises("ServiceConfigurationError")
    ELSE IF ~cfg.base_url
    THEN AdaptRaises("ServiceConfigurationError")
    ELSE [ok |-> TRUE, exc |-> "none", body |-> [kind |-> "chat_completions"]]

\* adapter.adapt_request
AdaptRequest(backend, fmt, req, cfg) ==
    CASE backend = "azure" -> AzureAdapt(req, cfg)
      [] backend = "kimi" -> KimiAdapt(req, cfg)
      [] OTHER -> IF fmt = "responses"
                  THEN AnthropicResponsesAdapt(req, cfg)
                  ELSE AnthropicAdapt(req, cfg)

\* status=resp.status_code if resp.status_code != 401 else 400
RemapStatus(status) == IF status # 401 THEN status ELSE 400

\* the diagnostic text of the Anthropic and Kimi adapters: status code and
\* upstream response, nothing of the request body
StatusDiagnostic == [kind |-> "status_and_response"]

ErrorResponse(status) ==
    [kind |-> "error_response", status |-> RemapStatus(status), exc |-> "none",
     diag |-> StatusDiagnostic]

Raised(exc) == [kind |-> "exception", status |-> 0, exc |-> exc]

\* the request_body of the report: instructions cut to 16 characters, tools
\* and input replaced by "...redacted N ...", the cache key masked
AzureDiagnostic(body) ==
    [kind |-> "report",
     instructions |-> "first_16_chars",
     tools |-> "redacted_count",
     input |-> "redacted_count",
     prompt_cache_key |-> "masked"]

\* AzureAdapter._handle_azure_error: slicing None, len(None) and re.sub on
\* None raise TypeError
HandleAzureError(status, body) ==
    IF body.instructions = "None" \/ body.input = "None" \/ body.prompt_cache_key = "None"
    THEN Raised("TypeError")
    ELSE [ErrorResponse(status) EXCEPT !.diag = AzureDiagnostic(body)]

\* AnthropicAdapter._handle_anthropic_error
HandleAnthropicError(status, body) == ErrorResponse(status)

\* KimiAdapter._handle_kimi_error
HandleKimiError(status, body) == ErrorResponse(status)

HandleError(backend, status, body) ==
    CASE backend = "azure" -> HandleAzureError(status, body)
      [] backend = "kimi" -> HandleKimiError(status, body)
      [] OTHER -> HandleAnthropicError(status, body)

UpstreamCallRetried(calls) == calls + 2

\* resp = requests.request(**request_kwargs): one call, with no retry loop
UpstreamCall(calls) == calls + 1

\* the request arrives at an adapter; no generator exists yet
InitForward ==
    /\ api_format \in {"messages", "responses"}
    /\ log_completion = TRUE
    /\ pc = "none"
    /\ chat_completion_id = "None"
    /\ tool_calls_count = 0
    /\ events = 0
    /\ buffer = <<>>
    /\ out = <<>>
    /\ wire = <<>>
    /\ received = <<>>
    /\ lines_sent = 0
    /\ upstream_closed = FALSE
    /\ raised = "none"
    /\ fw_pc = "idle"
    /\ fw_backend \in Backends
    /\ fw_config \in [api_key : BOOLEAN, base_url : BOOLEAN, reasoning_effort : BOOLEAN,
                      token_ok : BOOLEAN]
    /\ fw_request \in [has_system : BOOLEAN, has_input : BOOLEAN, has_user : BOOLEAN]
    /\ fw_status = 0
    /\ fw_result = [kind |-> "none", status |-> 0, exc |-> "none"]
    /\ upstream_calls = 0
    /\ translator_invoked = FALSE
    /\ AdaptIdle
    /\ RegistryIdle
    /\ ServeIdle

\* forward(): translate the request, call the upstream once, then either
\* report the error or hand the response to the stream translator
Forward ==
    /\ fw_pc = "idle"
    /\ fw_pc' = "done"
    /\ LET t == AdaptRequest(fw_backend, api_format, fw_request, fw_config) IN
       IF ~t.ok
       THEN /\ fw_result' = Raised(t.exc)
            /\ UNCHANGED <<fw_status, upstream_calls, translator_invoked, pc>>
       ELSE \E status \in Statuses :
              /\ fw_status' = status
              /\ upstream_calls' = UpstreamCall(upstream_calls)
              /\ IF status # 200
                 THEN /\ fw_result' = HandleError(fw_backend, status, t.body)
                      /\ UNCHANGED <<translator_invoked, pc>>
                 ELSE /\ fw_result' = [kind |-> "stream", status |-> 200, exc |-> "none"]
                      /\ translator_invoked' = TRUE
                      /\ pc' = IF fw_backend = "anthropic" THEN "unstarted" ELSE pc
    /\ UNCHANGED <<api_format, log_completion, chat_completion_id, tool_calls_count, events,
                   buffer, out, wire, received, lines_sent, upstream_closed, raised,
                   fw_backend, fw_config, fw_request, payload, fw_options, request_kwargs>>
    /\ UNCHANGED <<regvars, servevars>>

NextForward == Forward

SpecForward == InitForward /\ [][NextForward]_vars

\* ------------------------------------------- forward, then the stream
\* one request from forward() to the end of its stream; the fields an
\* adapter never reads are fixed
InitRequest ==
    /\ InitForward
    /\ fw_backend = "anthropic" =>
          /\ fw_request = [has_system |-> TRUE, has_input |-> TRUE, has_user |-> TRUE]
          /\ ~fw_config.reasoning_effort
          /\ api_format = "messages" => fw_config.token_ok
    /\ fw_backend # "anthropic" => api_format = "messages"

NextRequest == Forward \/ Next

SpecRequest == InitRequest /\ [][NextRequest]_vars

\* ------------------------------------------------- registry and factory
\* keys of the document, and a name no document holds
ModelNames == {"gpt-high", "claude-sonnet-4-5"}
LookupNames == ModelNames \cup {"unknown-model"}

\* the value of the backend key of an entry ("absent": the key is missing)
BackendTags == {"azure", "anthropic", "kimi", "unknown"}
BackendValues == BackendTags \cup {"absent"}
ApiModelValues == {"absent", "api-model-x"}
BudgetValues == {"absent", "2048"}
FormatValues == {"absent", "messages", "responses"}

\* an entry whose value is a mapping
Mapping(backend, api_model, thinking_budget, format) ==
    [kind |-> "mapping", backend |-> backend, api_model |-> api_model,
     thinking_budget |-> thinking_budget, api_format |-> format]

\* an entry whose value is null, a scalar or a list
NonMappings == {[kind |-> "null"], [kind |-> "scalar"], [kind |-> "list"]}

EntryValues ==
    NonMappings
    \cup {Mapping(b, a, "absent", "absent") : b \in BackendValues, a \in ApiModelValues}
    \cup {Mapping("anthropic", "api-model-x", t, f) : t \in BudgetValues, f \in FormatValues}

\* the items of the models mapping, in document order, keys distinct
EntrySeqs ==
    {<<>>}
    \cup {<<[name |-> n, value |-> v]>> : n \in ModelNames, v \in EntryValues}
    \cup {es \in {<<[name |-> n1, value |-> v1], [name |-> n2, value |-> v2]>> :
                      n1 \in ModelNames, n2 \in ModelNames,
                      v1 \in EntryValues, v2 \in EntryValues} :
             es[1].name # es[2].name}

\* no file; not YAML; top level not a mapping; no "models" key; "models" not
\* a mapping
BrokenKinds == {"missing", "invalid_yaml", "not_mapping", "no_models_key", "models_not_mapping"}

Documents ==
    {[kind |-> k, entries |-> <<>>] : k \in BrokenKinds}
    \cup {[kind |-> "models", entries |-> es] : es \in EntrySeqs}

NoConfig ==
    [name |-> "None", backend |-> "None", api_model |-> "None",
     thinking_budget |-> "None", api_format |-> "None"]

\* the dataclass constructor and __post_init__
ModelConfig(name, backend, api_model, thinking_budget, format) ==
    IF backend \notin {"azure", "anthropic"}
    THEN [ok |-> FALSE, exc |-> "ValueError", config |-> NoConfig]
    ELSE [ok |-> TRUE, exc |-> "none",
          config |-> [name |-> name, backend |-> backend, api_model |-> api_model,
                      thinking_budget |-> thinking_budget, api_format |-> format]]

\* the body of the for loop of _load_config, before the except clause:
\* model_data["backend"] on a value that is no mapping raises TypeError, a
\* missing key raises KeyError; thinking_budget and api_format are not passed
LoadEntry(name, value) ==
    IF value.kind # "mapping"
    THEN [ok |-> FALSE, exc |-> "TypeError", config |-> NoConfig]
    ELSE IF value.backend = "absent" \/ value.api_model = "absent"
    THEN [ok |-> FALSE, exc |-> "KeyError", config |-> NoConfig]
    ELSE ModelConfig(name, value.backend, value.api_model, "None", "None")

NoModels == [n \in {} |-> NoConfig]

LoadFailed(exc, model) ==
    [loaded |-> FALSE, exc |-> exc, model |-> model, order |-> <<>>, models |-> NoModels]

\* the for loop of _load_config: KeyError and ValueError become a
\* ServiceConfigurationError that names the model, anything else propagates
RECURSIVE LoadEntries(_, _, _)
LoadEntries(entries, order, models) ==
    IF entries = <<>>
    THEN [loaded |-> TRUE, exc |-> "none", model |-> "none", order |-> order, models |-> models]
    ELSE LET e == Head(entries)
             r == LoadEntry(e.name, e.value)
         IN
         IF r.ok
         THEN LoadEntries(Tail(entries), Append(order, e.name),
                          [n \in DOMAIN models \cup {e.name} |->
                              IF n = e.name THEN r.config ELSE models[n]])
         ELSE IF r.exc \in {"KeyError", "ValueError"}
         THEN LoadFailed("ServiceConfigurationError", e.name)
         ELSE LoadFailed(r.exc, "none")

\* ModelRegistry.__init__ / _load_config
LoadConfig(doc) ==
    IF doc.kind \in BrokenKinds
    THEN LoadFailed("ServiceConfigurationError", "none")
    ELSE LoadEntries(doc.entries, <<>>, NoModels)

GetModelConfigOrNone(reg, model_name) ==
    [ok |-> TRUE, exc |-> "none", available |-> <<>>,
     config |-> IF model_name \in DOMAIN reg.models THEN reg.models[model_name] ELSE NoConfig]

\* ModelRegistry.get_model_config
GetModelConfig(reg, model_name) ==
    IF model_name \notin DOMAIN reg.models
    THEN [ok |-> FALSE, exc |-> "ModelNotFoundError", available |-> reg.order,
          config |-> NoConfig]
    ELSE [ok |-> TRUE, exc |-> "none", available |-> <<>>, config |-> reg.models[model_name]]

\* ModelRegistry.list_models
ListModelNames(reg) == reg.order

\* AnthropicAdapter.__init__: api_format = model_config.api_format or "messages"
TranslatorPair(config) ==
    IF config.api_format = "responses" THEN "responses" ELSE "messages"

CreateAdapterFallsBack(config) ==
    [ok |-> TRUE, exc |-> "none",
     adapter |-> IF config.backend = "anthropic" THEN "AnthropicAdapter" ELSE "AzureAdapter",
     pair |-> IF config.backend = "anthropic" THEN TranslatorPair(config) ELSE "azure",
     supported |-> {}]

\* AdapterFactory.create_adapter
CreateAdapter(config) ==
    CASE config.backend = "azure" ->
            [ok |-> TRUE, exc |-> "none", adapter |-> "AzureAdapter",
             pair |-> "azure", supported |-> {}]
      [] config.backend = "anthropic" ->
            [ok |-> TRUE, exc |-> "none", adapter |-> "AnthropicAdapter",
             pair |-> TranslatorPair(config), supported |-> {}]
      [] OTHER ->
            [ok |-> FALSE, exc |-> "ServiceConfigurationError", adapter |-> "None",
             pair |-> "None", supported |-> {"azure", "anthropic"}]

\* AnthropicRequestAdapter.adapt: if thinking_budget := model_config.thinking_budget
ThinkingOption(config) ==
    IF config.thinking_budget # "None"
    THEN [type |-> "enabled", budget_tokens |-> config.thinking_budget]
    ELSE [type |-> "absent", budget_tokens |-> "None"]

\* the application starts and no registry exists yet
InitRegistryIdle ==
    /\ api_format = "messages"
    /\ log_completion = TRUE
    /\ pc = "none"
    /\ chat_completion_id = "None"
    /\ tool_calls_count = 0
    /\ events = 0
    /\ buffer = <<>>
    /\ out = <<>>
    /\ wire = <<>>
    /\ received = <<>>
    /\ lines_sent = 0
    /\ upstream_closed = FALSE
    /\ raised = "none"
    /\ fw_pc = "idle"
    /\ fw_backend = "anthropic"
    /\ fw_config = [api_key |-> TRUE, base_url |-> TRUE, reasoning_effort |-> FALSE,
                    token_ok |-> TRUE]
    /\ fw_request = [has_system |-> FALSE, has_input |-> TRUE, has_user |-> FALSE]
    /\ fw_status = 0
    /\ fw_result = [kind |-> "none", status |-> 0, exc |-> "none"]
    /\ upstream_calls = 0
    /\ translator_invoked = FALSE
    /\ AdaptIdle

InitRegistrySpec ==
    /\ InitRegistryIdle
    /\ document \in Documents
    /\ registry = NotLoaded
    /\ op = NoOp
    /\ ServeIdle

\* init_registry(config_path): a failed load raises out of create_app and
\* _registry stays None
InitRegistry ==
    /\ op = NoOp
    /\ registry = NotLoaded
    /\ LET r == LoadConfig(document) IN
       /\ registry' = IF r.loaded THEN r ELSE registry
       /\ op' = [kind |-> "init_registry", ok |-> r.loaded, exc |-> r.exc, model |-> r.model]
    /\ UNCHANGED <<streamvars, fwvars, document, servevars>>

\* registry.get_model_config(model_name)
Lookup ==
    /\ registry.loaded
    /\ \E model_name \in LookupNames :
          LET r == GetModelConfig(registry, model_name) IN
          op' = [kind |-> "lookup", name |-> model_name, ok |-> r.ok, exc |-> r.exc,
                 available |-> r.available, config |-> r.config]
    /\ UNCHANGED <<streamvars, fwvars, document, registry, servevars>>

\* registry.list_models()
ListNames ==
    /\ registry.loaded
    /\ op' = [kind |-> "list", names |-> ListModelNames(registry)]
    /\ UNCHANGED <<streamvars, fwvars, document, registry, servevars>>

\* ModelConfig(...) built directly, as the tests do
Construct ==
    /\ \E n \in ModelNames, b \in BackendTags, t \in {"None", "2048"},
          f \in {"None", "messages", "responses"} :
          LET r == ModelConfig(n, b, "api-model-x", t, f) IN
          op' = [kind |-> "construct", backend |-> b, ok |-> r.ok, exc |-> r.exc,
                 config |-> r.config]
    /\ UNCHANGED <<streamvars, fwvars, document, registry, servevars>>

\* AdapterFactory.create_adapter(model_config) on the config of the last
\* lookup or construction, or on one whose backend field was set afterwards
\* (the dataclass is not frozen)
Create ==
    /\ op.kind \in {"lookup", "construct"}
    /\ op.ok
    /\ \E b \in {op.config.backend} \cup BackendTags :
          LET config == [op.config EXCEPT !.backend = b]
              r == CreateAdapter(config)
          IN op' = [kind |-> "create", via |-> op.kind, config |-> config, ok |-> r.ok,
                    exc |-> r.exc, adapter |-> r.adapter, pair |-> r.pair,
                    supported |-> r.supported]
    /\ UNCHANGED <<streamvars, fwvars, document, registry, servevars>>

\* adapter.adapt_request(req) of an Anthropic adapter of the Messages format
Translate ==
    /\ op.kind = "create"
    /\ op.ok
    /\ op.adapter = "AnthropicAdapter"
    /\ op.pair = "messages"
    /\ op' = [kind |-> "translate", via |-> op.via, config |-> op.config, pair |-> op.pair,
              thinking |-> ThinkingOption(op.config)]
    /\ UNCHANGED <<streamvars, fwvars, document, registry, servevars>>

NextRegistry == InitRegistry \/ Lookup \/ ListNames \/ Construct \/ Create \/ Translate

SpecRegistry == InitRegistrySpec /\ [][NextRegistry]_vars

\* ------------------------------------------------- concurrent requests
\* lines of upstream body per request
MaxServeLines == 2

\* the requests in flight together
Requests == {"r1", "r2"}

\* adapter objects that may be created, one per request
Instances == 1..Cardinality(Requests)

\* the random identifiers _create_chat_completion_id may return
ServeIds == Ids \cup {"chatcmpl-Z9y8X7w6V5u4T3s2R1q0P9o8"}

\* the registry document of the running application
ServeDocument ==
    [kind |-> "models",
     entries |-> <<[name |-> "gpt-high",
                    value |-> Mapping("azure", "api-model-x", "absent", "absent")],
                   [name |-> "claude-sonnet-4-5",
                    value |-> Mapping("anthropic", "api-model-x", "absent", "absent")]>>]

\* every secret and every field of the model is configured, and the request
\* has a system message, input items and a user field
ServeSettings ==
    [api_key |-> TRUE, base_url |-> TRUE, reasoning_effort |-> TRUE, token_ok |-> TRUE]
ServeRequestShape == [has_system |-> TRUE, has_input |-> TRUE, has_user |-> TRUE]

\* status codes of the upstream call
ServeStatuses == {200, 401}

\* the lines the upstream of a request may send
ServeLines ==
    { Line(<<"{message_start}">>),
      Line(<<"{content_block_start:tool_use:toolu_1:get_weather}">>),
      Line(<<"{content_block_delta:input_json_delta:{\"a\"}">>) }

NoAdapter == [model |-> "None", chat_completion_id |-> "None", tool_calls_count |-> 0]

\* what catch_all hands back to the client ("none": nothing yet)
NoReply ==
    [status |-> 0, body |-> "none", type |-> "none", param |-> "none", code |-> "none",
     message |-> <<>>]

NewRequest ==
    [pc |-> "new", model |-> "None", inst |-> 0, fmt |-> "none", status |-> 0,
     result |-> "none", wire |-> <<>>, sent |-> 0, buffer |-> <<>>, events |-> 0,
     received |-> <<>>, out |-> <<>>, reply |-> NoReply,
     body |-> [kind |-> "none", model |-> "absent"], looked_up |-> FALSE]

\* model_name = payload.get("model") if isinstance(payload, dict) else None,
\* with payload = request.get_json(silent=True): None for a body that is no JSON
ModelNameOfAnyPayload(body) ==
    IF body.model \notin {"absent", "null"} THEN body.model ELSE "None"

ModelNameOf(body) ==
    IF body.kind = "object" /\ body.model \notin {"absent", "null"} THEN body.model ELSE "None"

\* if not model_name: the JSON error of catch_all
MissingModelResponse ==
    [status |-> 400, body |-> "json_error", type |-> "invalid_request_error",
     param |-> "model", code |-> "None", message |-> <<"Missing 'model' field in request">>]

ModelNotFoundResponseAsConfigurationError(model_name, found) ==
    [status |-> 400, body |-> "text", type |-> "none", param |-> "none", code |-> "none",
     message |-> <<"Service configuration error, check your .env file.", "\n\n\t",
                   "ModelNotFoundError">>]

\* except ModelNotFoundError as e: the JSON error of catch_all, whose message
\* is str(e) of ModelRegistry.get_model_config
ModelNotFoundResponse(model_name, found) ==
    [status |-> 400, body |-> "json_error", type |-> "invalid_request_error",
     param |-> "model", code |-> "model_not_found",
     message |-> <<"Model '", model_name, "' is not configured. Available models: ">>
                 \o found.available]

\* errorhandler(ConfigurationError): e.get_response_content(), 400, the
\* preamble of the exception class before its message
ConfigurationErrorResponse(exc) ==
    [status |-> 400, body |-> "text", type |-> "none", param |-> "none", code |-> "none",
     message |-> <<IF exc = "CursorConfigurationError"
                   THEN "Cursor configuration error, check your Cursor settings."
                   ELSE "Service configuration error, check your .env file.",
                   "\n\n\t", exc>>]

ConfigAfterInitWritesDefault(config) == [config EXCEPT !.api_format = "messages"]

\* the ModelConfig object after BaseAdapter.__init__ and AnthropicAdapter.__init__
\* ran on it: both read its fields and assign only to attributes of self
ConfigAfterInit(config) == config

SharedInstance(count) == CHOOSE i \in Instances : \A j \in Instances : i <= j

\* AdapterFactory.create_adapter constructs a new adapter at every call, and
\* the adapter constructs its own response adapter
NextInstance(count) == count + 1

InitServe ==
    /\ InitRegistryIdle
    /\ document = ServeDocument
    /\ registry = LoadConfig(ServeDocument)
    /\ op = [kind |-> "init_registry", ok |-> TRUE, exc |-> "none", model |-> "none"]
    /\ requests = [r \in Requests |-> NewRequest]
    /\ adapters = [i \in Instances |-> NoAdapter]
    /\ allocated = 0

\* catch_all: look the model up, create the adapter, forward. The body of a
\* request is a JSON object, a JSON array of such an object, or such an object
\* sent with a content type that is not JSON; the model of the object is
\* absent, null, empty or a name. The settings a request meets are complete, or lack
\* the API key, or the reasoning effort
CatchAll(r) ==
    /\ requests[r].pc = "new"
    /\ \E body \in [kind : {"not_json", "array", "object"},
                     model : LookupNames \cup {"absent", "null", ""}] :
          LET model_name == ModelNameOf(body)
              found == GetModelConfig(registry, model_name)
              ServeConfigs == {ServeSettings, [ServeSettings EXCEPT !.api_key = FALSE],
                               [ServeSettings EXCEPT !.reasoning_effort = FALSE]}
              ForwardResponse(status, kind) ==
                  [NoReply EXCEPT !.status = IF kind = "exception" THEN 500
                                             ELSE RemapStatus(status),
                                  !.body = kind]
          IN
          IF model_name \in {"None", ""}
          THEN /\ requests' = [requests EXCEPT ![r].pc = "done", ![r].body = body,
                                               ![r].result = "missing_model",
                                               ![r].reply = MissingModelResponse]
               /\ UNCHANGED <<adapters, allocated, registry>>
          ELSE IF ~found.ok
          THEN /\ requests' = [requests EXCEPT ![r].pc = "done", ![r].model = model_name,
                                               ![r].body = body, ![r].looked_up = TRUE,
                                               ![r].result = "model_not_found",
                                               ![r].reply = ModelNotFoundResponse(model_name,
                                                                                  found)]
               /\ UNCHANGED <<adapters, allocated, registry>>
          ELSE \E cfg \in ServeConfigs :
               LET created == CreateAdapter(found.config)
                   inst == NextInstance(allocated)
                   t == AdaptRequest(found.config.backend, created.pair, ServeRequestShape, cfg)
               IN
               /\ allocated' = allocated + 1
               /\ adapters' = [adapters EXCEPT ![inst] = [NoAdapter EXCEPT !.model = model_name]]
               /\ registry' = [registry EXCEPT !.models[model_name] = ConfigAfterInit(@)]
               /\ IF ~t.ok
                  THEN requests' = [requests EXCEPT
                                       ![r].pc = "done",
                                       ![r].model = model_name,
                                       ![r].inst = inst,
                                       ![r].body = body, ![r].looked_up = TRUE,
                                       ![r].result = "configuration_error",
                                       ![r].reply = ConfigurationErrorResponse(t.exc)]
                  ELSE \E status \in ServeStatuses :
                     LET streams == status = 200 /\ found.config.backend = "anthropic"
                         result == IF status = 200 THEN "stream"
                                   ELSE HandleError(found.config.backend, status, t.body).kind
                     IN
                     requests' = [requests EXCEPT
                                     ![r].pc = IF streams THEN "unstarted" ELSE "done",
                                     ![r].model = model_name,
                                     ![r].inst = inst,
                                     ![r].fmt = IF streams THEN created.pair ELSE "none",
                                     ![r].status = status,
                                     ![r].body = body, ![r].looked_up = TRUE,
                                     ![r].result = result,
                                     ![r].reply = ForwardResponse(status, result)]
    /\ UNCHANGED <<streamvars, fwvars, document, op>>

\* the first next() on the response of request r
ServeStart(r) ==
    /\ requests[r].pc = "unstarted"
    /\ \E id \in ServeIds :
          adapters' = [adapters EXCEPT ![requests[r].inst].chat_completion_id = id,
                                       ![requests[r].inst].tool_calls_count = 0]
    /\ requests' = [requests EXCEPT ![r].pc = "read", ![r].events = 0, ![r].buffer = <<>>]
    /\ UNCHANGED <<streamvars, fwvars, regvars, allocated>>

\* the while condition of generate(): a complete line is in the buffer
ServeLoopPc(buf) == IF HasLF(buf) THEN "lines" ELSE "read"

\* iter_content of request r delivers the next input chunk: a whole line, or
\* the line in two parts
ServeRead(r) ==
    /\ requests[r].pc = "read"
    /\ \/ /\ requests[r].wire # <<>>
          /\ requests' = [requests EXCEPT
                            ![r].buffer = BufferAppend(@, requests[r].wire),
                            ![r].received = @ \o requests[r].wire,
                            ![r].wire = <<>>,
                            ![r].pc = ServeLoopPc(BufferAppend(requests[r].buffer,
                                                               requests[r].wire))]
       \/ /\ requests[r].wire = <<>>
          /\ requests[r].sent < MaxServeLines
          /\ \E line \in ServeLines : \E k \in {1, Len(line)} :
                requests' = [requests EXCEPT
                                ![r].buffer = BufferAppend(@, SubSeq(line, 1, k)),
                                ![r].received = @ \o SubSeq(line, 1, k),
                                ![r].wire = SubSeq(line, k + 1, Len(line)),
                                ![r].sent = @ + 1,
                                ![r].pc = ServeLoopPc(BufferAppend(requests[r].buffer,
                                                                   SubSeq(line, 1, k)))]
    /\ UNCHANGED <<streamvars, fwvars, regvars, adapters, allocated>>

\* one iteration of the while loop of request r
ServeLine(r) ==
    /\ requests[r].pc = "lines"
    /\ LET a == adapters[requests[r].inst]
           step == LineStep(requests[r].fmt, a.chat_completion_id, log_completion,
                            requests[r].buffer, requests[r].events, a.tool_calls_count)
       IN
       /\ adapters' = [adapters EXCEPT ![requests[r].inst].tool_calls_count = step.count]
       /\ requests' = [requests EXCEPT
                          ![r].pc = ServeLoopPc(step.buffer),
                          ![r].buffer = step.buffer,
                          ![r].events = step.events,
                          ![r].out = IF step.chunk # NoChunk THEN Append(@, step.chunk) ELSE @]
    /\ UNCHANGED <<streamvars, fwvars, regvars, allocated>>

\* the upstream of request r closes: final chunk and sentinel
ServeEnd(r) ==
    /\ requests[r].pc = "read"
    /\ requests[r].wire = <<>>
    /\ LET a == adapters[requests[r].inst] IN
       requests' = [requests EXCEPT
                       ![r].pc = "done",
                       ![r].out = @ \o FinalFrames(requests[r].fmt, a.chat_completion_id,
                                                   requests[r].events, a.tool_calls_count)]
    /\ UNCHANGED <<streamvars, fwvars, regvars, adapters, allocated>>

NextServe ==
    \/ \E r \in Requests :
          \/ CatchAll(r)
          \/ ServeStart(r)
          \/ ServeRead(r)
          \/ ServeLine(r)
          \/ ServeEnd(r)
    \/ ListNames

SpecServe == InitServe /\ [][NextServe]_vars

\* ------------------------------------------------- request translators
\* The JSON body of a request is a record: keys is the set of its keys, and
\* the field of a missing key holds a placeholder.  A text is a sequence of
\* runs: a run is a piece of text without the characters a translator splits
\* on, or one such character; <<>> is the empty string.  The value of a
\* content key is [t |-> "absent"], [t |-> "null"], [t |-> "str", text |-> a
\* text] or [t |-> "list", items |-> parts]; a part of type "not_a_dict" is
\* an item that is no JSON object; tool_calls <<>> is a missing, null or empty
\* tool_calls.

\* messages in one request
MaxMessages == 2

\* str.split(sep, 1): the text before the first sep and the text after it,
\* or the whole text alone when it holds no sep
SplitFirst(text, sep) ==
    IF \A i \in 1..Len(text) : text[i] # sep
    THEN <<text>>
    ELSE LET k == CHOOSE i \in 1..Len(text) :
                     text[i] = sep /\ \A j \in 1..(i - 1) : text[j] # sep
         IN <<SubSeq(text, 1, k - 1), SubSeq(text, k + 1, Len(text))>>

\* AnthropicRequestAdapter._convert_content.  header, data = url.split(",", 1)
\* raises ValueError without a comma, which is caught and the item skipped
ConvertContent(content) ==
    LET ConvertItem(item) ==
            CASE item.type = "not_a_dict" -> <<>>
              [] item.type = "text" -> <<item>>
              [] item.type = "image_url" ->
                   IF Len(item.url) >= 2 /\ item.url[1] = "data" /\ item.url[2] = ":"
                        /\ Len(SplitFirst(item.url, ",")) = 2
                   THEN LET header == SplitFirst(item.url, ",")[1]
                            data == SplitFirst(item.url, ",")[2]
                            media_type ==
                                SplitFirst(SplitFirst(SplitFirst(header, ":")[2], ":")[1], ";")[1]
                        IN <<[type |-> "image",
                              source |-> [type |-> "base64", media_type |-> media_type,
                                          data |-> data]]>>
                   ELSE <<>>
              [] OTHER -> <<item>>
        anthropic_content[n \in 0..Len(content.items)] ==
            IF n = 0 THEN <<>>
            ELSE anthropic_content[n - 1] \o ConvertItem(content.items[n])
    IN
    IF content.t = "str"
    THEN content
    ELSE IF content.t = "list"
    THEN IF anthropic_content[Len(content.items)] # <<>>
         THEN [t |-> "list", items |-> anthropic_content[Len(content.items)]]
         ELSE content
    ELSE content

\* AnthropicRequestAdapter._convert_messages: the body of the loop for msg,
\* on the list anthropic_messages built so far; content.extend on a content
\* of None raises AttributeError
ConvertMessage(anthropic_messages, msg) ==
    IF msg.role \in {"system", "developer"}
    THEN [ok |-> TRUE, messages |-> anthropic_messages]
    ELSE LET content == IF msg.content.t = "absent" THEN [t |-> "str", text |-> <<>>]
                        ELSE msg.content
             added ==
                 IF msg.role \in {"user", "assistant"}
                 THEN Append(anthropic_messages,
                             [role |-> msg.role, content |-> ConvertContent(content)])
                 ELSE IF msg.role = "tool"
                 THEN Append(anthropic_messages,
                             [role |-> "user",
                              content |-> [t |-> "list",
                                           items |-> <<[type |-> "tool_result",
                                                        tool_use_id |-> msg.tool_call_id,
                                                        content |-> content]>>]])
                 ELSE anthropic_messages
             tool_use_content ==
                 [i \in 1..Len(msg.tool_calls) |->
                     [type |-> "tool_use", id |-> msg.tool_calls[i].id,
                      name |-> msg.tool_calls[i].name,
                      input |-> msg.tool_calls[i].arguments]]
         IN
         IF tool_use_content = <<>>
         THEN [ok |-> TRUE, messages |-> added]
         ELSE IF added # <<>> /\ added[Len(added)].role = "assistant"
         THEN LET last == added[Len(added)].content IN
              IF last.t = "str"
              THEN [ok |-> TRUE,
                    messages |-> [added EXCEPT ![Len(added)].content =
                                     [t |-> "list",
                                      items |-> <<[type |-> "text", text |-> last.text]>>
                                                    \o tool_use_content]]]
              ELSE IF last.t = "list"
              THEN [ok |-> TRUE,
                    messages |-> [added EXCEPT ![Len(added)].content =
                                     [t |-> "list", items |-> last.items \o tool_use_content]]]
              ELSE [ok |-> FALSE, messages |-> added]
         ELSE [ok |-> TRUE,
               messages |-> Append(added, [role |-> "assistant",
                                           content |-> [t |-> "list",
                                                        items |-> tool_use_content]])]

\* AnthropicRequestAdapter._convert_messages: the loop
RECURSIVE ConvertMessages(_, _)
ConvertMessages(messages, anthropic_messages) ==
    IF messages = <<>>
    THEN [ok |-> TRUE, messages |-> anthropic_messages]
    ELSE LET r == ConvertMessage(anthropic_messages, Head(messages)) IN
         IF r.ok THEN ConvertMessages(Tail(messages), r.messages) ELSE r

\* an extraction that keeps the text of the last system message only
ExtractSystemMessagesLast(messages) ==
    LET sys == SelectSeq(messages, LAMBDA msg : msg.role \in {"system", "developer"}
                                                  /\ msg.content.t = "str")
    IN IF sys = <<>> THEN <<>> ELSE sys[Len(sys)].content.text

\* AnthropicRequestAdapter._extract_system_messages: "\n\n".join(system_parts)
ExtractSystemMessages(messages) ==
    LET PartsOf(msg) ==
            IF msg.role \notin {"system", "developer"}
            THEN <<>>
            ELSE IF msg.content.t = "str"
            THEN <<msg.content.text>>
            ELSE IF msg.content.t = "list"
            THEN LET texts == SelectSeq(msg.content.items, LAMBDA item : item.type = "text")
                 IN [i \in 1..Len(texts) |-> texts[i].text]
            ELSE IF msg.content.t = "absent"
            THEN << <<>> >>
            ELSE <<>>
        system_parts[n \in 0..Len(messages)] ==
            IF n = 0 THEN <<>> ELSE system_parts[n - 1] \o PartsOf(messages[n])
        joined[n \in 0..Len(system_parts[Len(messages)])] ==
            IF n = 0 THEN <<>>
            ELSE IF n = 1 THEN system_parts[Len(messages)][1]
            ELSE joined[n - 1] \o <<"\\n\\n">> \o system_parts[Len(messages)][n]
    IN joined[Len(system_parts[Len(messages)])]

\* what adapt raises
AdaptFailed(exc) ==
    [kind |-> "exception", exc |-> exc, allowed |-> {}, json |-> [keys |-> {}]]

\* a header is its name as written, the lower-case form of the name (canon)
\* and its value
Header(name, canon, value) == [name |-> name, canon |-> canon, value |-> value]

\* headers handed on under the names the client wrote
HeaderItemsAsSent(sent) == sent

\* src.headers.items() of a Flask request: the headers of the WSGI environ,
\* each name in the form Word-Word whatever the client wrote
HeaderItems(sent) ==
    LET Title == [canon \in {"authorization", "host", "content-type", "user-agent"} |->
                     CASE canon = "authorization" -> "Authorization"
                       [] canon = "host" -> "Host"
                       [] canon = "content-type" -> "Content-Type"
                       [] OTHER -> "User-Agent"]
    IN {Header(Title[h.canon], h.canon, h.value) : h \in sent}

\* azure RequestAdapter._copy_request_headers_for_azure
CopyRequestHeadersForAzure(sent) ==
    {h \in HeaderItems(sent) : h.name \notin {"Host", "Authorization", "api-key"}}
        \cup {Header("api-key", "api-key", "AZURE_API_KEY")}

\* AnthropicRequestAdapter.adapt, up to the system key of anthropic_body.
\* max_tokens is  payload.get("max_tokens") or model_config.max_tokens or 64000:
\* an absent key, null and 0 are falsy
AnthropicBody(p, options) ==
    LET converted == ConvertMessages(p.messages, <<>>)
        system == ExtractSystemMessages(p.messages)
        Falsy == {"absent", "null", "None", "0"}
        max_tokens == IF p.max_tokens \notin Falsy THEN p.max_tokens
                      ELSE IF options.max_tokens \notin Falsy THEN options.max_tokens
                      ELSE "64000"
    IN
    IF ~converted.ok
    THEN AdaptFailed("AttributeError")
    ELSE [kind |-> "kwargs", exc |-> "none", allowed |-> {},
          headers |-> {Header("x-api-key", "x-api-key", "ANTHROPIC_API_KEY"),
                       Header("anthropic-version", "anthropic-version", "2023-06-01"),
                       Header("content-type", "content-type", "application/json")},
          json |-> [keys |-> {"model", "messages", "max_tokens", "stream"}
                               \cup (IF system # <<>> THEN {"system"} ELSE {}),
                    messages |-> converted.messages,
                    max_tokens |-> max_tokens,
                    system |-> system]]

\* an item that loses the id of its call
FunctionCallItemWithoutId(tool_call) ==
    [type |-> "function_call", name |-> tool_call.name, arguments |-> tool_call.arguments,
     call_id |-> "None"]

\* azure _messages_to_responses_input_and_instructions: the item of a tool call
FunctionCallItem(tool_call) ==
    [type |-> "function_call", name |-> tool_call.name, arguments |-> tool_call.arguments,
     call_id |-> tool_call.id]

\* azure RequestAdapter._messages_to_responses_input_and_instructions, with
\* _extract_text_from_content and _convert_content_to_responses_format
MessagesToResponsesInputAndInstructions(messages) ==
    LET ExtractText(content) ==
            IF content.t = "str" THEN content.text
            ELSE IF content.t = "list"
            THEN LET texts == SelectSeq(content.items, LAMBDA item : item.type = "text")
                     text_parts[n \in 0..Len(texts)] ==
                         IF n = 0 THEN <<>> ELSE text_parts[n - 1] \o texts[n].text
                 IN text_parts[Len(texts)]
            ELSE <<>>
        ContentType(role) == IF role = "user" THEN "input_text" ELSE "output_text"
        ConvertItem(item, role) ==
            CASE item.type = "text" ->
                   IF item.text # <<>>
                   THEN <<[type |-> ContentType(role), text |-> item.text]>>
                   ELSE <<>>
              [] item.type = "image_url" ->
                   IF item.url # <<>>
                   THEN <<[type |-> "input_image", image_url |-> item.url]>>
                   ELSE <<>>
              [] OTHER -> <<>>
        ConvertToResponses(content, role) ==
            IF content.t = "str"
            THEN <<[type |-> ContentType(role), text |-> content.text]>>
            ELSE IF content.t = "list"
            THEN LET responses_content[n \in 0..Len(content.items)] ==
                         IF n = 0 THEN <<>>
                         ELSE responses_content[n - 1] \o ConvertItem(content.items[n], role)
                 IN responses_content[Len(content.items)]
            ELSE <<>>
        ItemsOf(m) ==
            IF m.role \in {"system", "developer"}
            THEN <<>>
            ELSE IF m.role = "tool"
            THEN <<[type |-> "function_call_output", output |-> ExtractText(m.content),
                    status |-> "completed", call_id |-> m.tool_call_id]>>
            ELSE (IF ConvertToResponses(m.content, m.role) # <<>>
                  THEN <<[type |-> "message", role |-> m.role,
                          content |-> ConvertToResponses(m.content, m.role)]>>
                  ELSE <<>>)
                 \o [i \in 1..Len(m.tool_calls) |-> FunctionCallItem(m.tool_calls[i])]
        input_items[n \in 0..Len(messages)] ==
            IF n = 0 THEN <<>> ELSE input_items[n - 1] \o ItemsOf(messages[n])
        sys == SelectSeq(messages, LAMBDA m : m.role \in {"system", "developer"})
        joined[n \in 0..Len(sys)] ==
            IF n = 0 THEN <<>>
            ELSE IF n = 1 THEN ExtractText(sys[1].content)
            ELSE joined[n - 1] \o <<"\\n\\n">> \o ExtractText(sys[n].content)
    IN
    [instructions |-> IF sys # <<>> THEN [t |-> "str", text |-> joined[Len(sys)]]
                      ELSE [t |-> "null"],
     input |-> input_items[Len(messages)]]

\* azure RequestAdapter.adapt, from the summary level on: each value is the
\* model config's, else the default of settings.py; allowed is what the
\* message of the error lists
AzureBody(p, options) ==
    LET settings == [AZURE_SUMMARY_LEVEL |-> "detailed",
                     AZURE_VERBOSITY_LEVEL |-> "medium",
                     AZURE_TRUNCATION |-> "disabled"]
        summary_level == IF options.summary_level # "None" THEN options.summary_level
                         ELSE settings.AZURE_SUMMARY_LEVEL
        verbosity_level == IF options.verbosity_level # "None" THEN options.verbosity_level
                           ELSE settings.AZURE_VERBOSITY_LEVEL
        truncation == IF options.truncation_strategy # "None" THEN options.truncation_strategy
                      ELSE settings.AZURE_TRUNCATION
    IN
    IF summary_level \notin {"auto", "detailed", "concise"}
    THEN [AdaptFailed("ServiceConfigurationError") EXCEPT
             !.allowed = {"auto", "detailed", "concise"}]
    ELSE [kind |-> "kwargs", exc |-> "none", allowed |-> {},
          headers |-> CopyRequestHeadersForAzure(p.headers),
          json |-> [keys |-> {"input", "instructions", "model", "tools", "tool_choice",
                              "prompt_cache_key", "stream", "reasoning", "store",
                              "stream_options"}
                               \cup (IF verbosity_level \in {"low", "high"} THEN {"text"} ELSE {})
                               \cup (IF truncation = "auto" THEN {"truncation"} ELSE {}),
                    instructions |-> MessagesToResponsesInputAndInstructions(p.messages)
                                        .instructions,
                    input |-> MessagesToResponsesInputAndInstructions(p.messages).input,
                    summary |-> summary_level,
                    verbosity |-> IF verbosity_level \in {"low", "high"} THEN verbosity_level
                                  ELSE "absent",
                    truncation |-> IF truncation = "auto" THEN truncation ELSE "absent"]]

\* KimiRequestAdapter.adapt: url, from base_url.rstrip('/'); a URL is the
\* sequence of its pieces, "/" a single slash
KimiUrl(base_url) ==
    LET kept == CHOOSE k \in 0..Len(base_url) :
                    /\ \A i \in (k + 1)..Len(base_url) : base_url[i] = "/"
                    /\ k > 0 => base_url[k] # "/"
    IN SubSeq(base_url, 1, kept) \o <<"/chat/completions", "?api-version=2024-05-01-preview">>

\* a body built without the tools of the request
KimiBodyWithoutTools(p, options) ==
    [kind |-> "kwargs", exc |-> "none", allowed |-> {},
     method |-> "POST", url |-> KimiUrl(options.base_url),
     headers |-> {Header("Authorization", "authorization", "Bearer AZURE_API_KEY"),
                  Header("Content-Type", "content-type", "application/json")},
     json |-> [keys |-> {"model", "messages", "stream"}
                          \cup (p.keys \cap {"temperature", "top_p", "max_tokens", "tool_choice"})
                          \cup (IF options.max_tokens # "None" THEN {"max_tokens"} ELSE {}),
               model |-> "api-model-x",
               messages |-> IF "messages" \in p.keys THEN p.messages ELSE <<>>,
               temperature |-> p.temperature,
               top_p |-> p.top_p,
               max_tokens |-> IF "max_tokens" \in p.keys THEN p.max_tokens
                              ELSE options.max_tokens,
               stream |-> IF "stream" \in p.keys THEN p.stream ELSE "true",
               tools |-> <<>>,
               tool_choice |-> p.tool_choice]]

\* KimiRequestAdapter.adapt: request_kwargs, with kimi_body as json
KimiBody(p, options) ==
    [kind |-> "kwargs", exc |-> "none", allowed |-> {},
     method |-> "POST", url |-> KimiUrl(options.base_url),
     headers |-> {Header("Authorization", "authorization", "Bearer AZURE_API_KEY"),
                  Header("Content-Type", "content-type", "application/json")},
     json |-> [keys |-> {"model", "messages", "stream"}
                          \cup (p.keys \cap {"temperature", "top_p", "max_tokens", "tools",
                                            "tool_choice"})
                          \cup (IF options.max_tokens # "None" THEN {"max_tokens"} ELSE {}),
               model |-> "api-model-x",
               messages |-> IF "messages" \in p.keys THEN p.messages ELSE <<>>,
               temperature |-> p.temperature,
               top_p |-> p.top_p,
               max_tokens |-> IF "max_tokens" \in p.keys THEN p.max_tokens
                              ELSE options.max_tokens,
               stream |-> IF "stream" \in p.keys THEN p.stream ELSE "true",
               tools |-> p.tools,
               tool_choice |-> p.tool_choice]]

\* adapter.adapt_request: the translator of the backend, with the order in
\* which each raises
RequestKwargs(backend, fmt, req, cfg, p, options) ==
    LET t == AdaptRequest(backend, fmt, req, cfg) IN
    CASE backend = "azure" -> IF ~t.ok THEN AdaptFailed(t.exc) ELSE AzureBody(p, options)
      [] backend = "kimi" -> IF ~t.ok THEN AdaptFailed(t.exc) ELSE KimiBody(p, options)
      [] OTHER -> IF AnthropicBody(p, options).kind = "exception" THEN AnthropicBody(p, options)
                  ELSE IF ~t.ok THEN AdaptFailed(t.exc)
                  ELSE AnthropicBody(p, options)

\* a request arrives at the adapter of its model: the bodies and model
\* configs each translator is given
InitAdapt ==
    LET Call(id, name) == [id |-> id, name |-> name, arguments |-> "{}"]
        Text(run) == [type |-> "text", text |-> <<run>>]
        Image(url) == [type |-> "image_url", url |-> url]
        Str(text) == [t |-> "str", text |-> text]
        List(items) == [t |-> "list", items |-> items]
        DataUrl == <<"data", ":", "image/png", ";", "base64", ",", "AAAA">>
        TwoCommas == <<"data", ":", "image/gif", ";", "base64", ",", "AA", ",", "BB">>
        NoComma == <<"data", ":", "image/png", ";", "base64">>
        Remote == <<"https", ":", "//host/cat.png">>
        Msg(role, content, tool_calls) ==
            [role |-> role, content |-> content, tool_calls |-> tool_calls,
             tool_call_id |-> IF role = "tool" THEN "call_1" ELSE "absent"]
        MessageValues ==
            {Msg("system", c, <<>>) :
                c \in {Str(<<"Be brief.">>), Str(<<>>), List(<<Text("Rules"), Text("More")>>)}}
            \cup {Msg("developer", Str(<<"Use tools.">>), <<>>)}
            \cup {Msg("user", c, <<>>) :
                    c \in {Str(<<"Hello!">>),
                           List(<<Text("Look"), Text("here")>>),
                           List(<<Text("Look"), Image(DataUrl)>>),
                           List(<<Image(Remote)>>),
                           List(<<Image(NoComma), Text("Look")>>),
                           List(<<Image(TwoCommas), Image(NoComma)>>),
                           List(<<[type |-> "not_a_dict"], Text("Look")>>)}}
            \cup {Msg("assistant", c, calls) :
                    c \in {Str(<<"Hi">>), Str(<<>>), [t |-> "null"], [t |-> "absent"],
                           List(<<Text("Hi")>>)},
                    calls \in {<<>>, <<Call("call_1", "get_weather")>>,
                              <<Call("call_1", "get_weather"), Call("call_2", "get_time")>>}}
            \cup {Msg("tool", Str(<<"72F">>), <<>>)}
        Body(keys, messages) ==
            [keys |-> keys \cup {"model"},
             messages |-> IF "messages" \in keys THEN messages ELSE <<>>,
             temperature |-> IF "temperature" \in keys THEN "0.7" ELSE "absent",
             top_p |-> IF "top_p" \in keys THEN "0.9" ELSE "absent",
             max_tokens |-> IF "max_tokens" \in keys THEN "1024" ELSE "absent",
             stream |-> IF "stream" \in keys THEN "false" ELSE "absent",
             tools |-> IF "tools" \in keys THEN <<"get_weather">> ELSE <<>>,
             tool_choice |-> IF "tool_choice" \in keys THEN "auto" ELSE "absent",
             headers |-> {Header("Authorization", "authorization", "Bearer client-token"),
                          Header("Host", "host", "gateway.local"),
                          Header("Content-Type", "content-type", "application/json")}]
        Options(summary, verbosity, truncation, max_tokens) ==
            [summary_level |-> summary, verbosity_level |-> verbosity,
             truncation_strategy |-> truncation, max_tokens |-> max_tokens,
             base_url |-> <<"https://test.openai.azure.com/openai/v1">>]
    IN
    /\ api_format = "messages"
    /\ log_completion = TRUE
    /\ pc = "none"
    /\ chat_completion_id = "None"
    /\ tool_calls_count = 0
    /\ events = 0
    /\ buffer = <<>>
    /\ out = <<>>
    /\ wire = <<>>
    /\ received = <<>>
    /\ lines_sent = 0
    /\ upstream_closed = FALSE
    /\ raised = "none"
    /\ fw_pc = "idle"
    /\ fw_backend \in Backends
    /\ fw_config = ServeSettings
    /\ fw_request = ServeRequestShape
    /\ fw_status = 0
    /\ fw_result = [kind |-> "none", status |-> 0, exc |-> "none"]
    /\ upstream_calls = 0
    /\ translator_invoked = FALSE
    /\ request_kwargs = [kind |-> "none"]
    /\ \/ /\ \E authorization \in {"Authorization", "authorization", "AUTHORIZATION"} :
             \E host \in {"Host", "host", "HOST"} :
                payload = [Body({"messages"}, <<Msg("user", Str(<<"Hello!">>), <<>>)>>)
                             EXCEPT !.headers =
                                {Header(authorization, "authorization", "Bearer client-token"),
                                 Header(host, "host", "gateway.local"),
                                 Header("user-agent", "user-agent", "cursor")}]
          /\ fw_options = Options("None", "None", "None", "None")
       \/ /\ fw_backend = "anthropic"
          /\ \E n \in 0..MaxMessages : \E messages \in [1..n -> MessageValues] :
                payload = Body({"messages"}, messages)
          /\ fw_options = Options("None", "None", "None", "None")
       \/ /\ fw_backend = "anthropic"
          /\ \E given \in {"null", "0", "1024"} :
                payload = [Body({"messages", "max_tokens"},
                                <<Msg("user", Str(<<"Hello!">>), <<>>)>>)
                             EXCEPT !.max_tokens = given]
          /\ \E max_tokens \in {"None", "0", "4096"} :
                fw_options = Options("None", "None", "None", max_tokens)
       \/ /\ fw_backend = "anthropic"
          /\ payload = Body({"messages"}, <<Msg("user", Str(<<"Hello!">>), <<>>)>>)
          /\ fw_options \in {Options("None", "None", "None", max_tokens) :
                                max_tokens \in {"0", "4096"}}
       \/ /\ fw_backend = "azure"
          /\ \E n \in 0..MaxMessages : \E messages \in [1..n -> MessageValues] :
                payload = Body({"messages"}, messages)
          /\ fw_options = Options("None", "None", "None", "None")
       \/ /\ fw_backend = "azure"
          /\ payload = Body({"messages"}, <<Msg("user", Str(<<"Hello!">>), <<>>)>>)
          /\ \E summary \in {"None", "concise", "verbose"} :
             \E verbosity \in {"None", "low", "loud"} :
             \E truncation \in {"None", "auto", "middle"} :
                fw_options = Options(summary, verbosity, truncation, "None")
       \/ /\ fw_backend = "kimi"
          /\ \E keys \in SUBSET {"messages", "temperature", "top_p", "max_tokens", "stream",
                                  "tools", "tool_choice"} :
                payload = Body(keys, <<Msg("user", Str(<<"Hello!">>), <<>>)>>)
          /\ \E max_tokens \in {"None", "4096"} : \E slashes \in {<<>>, <<"/">>, <<"/", "/">>} :
                fw_options = [Options("None", "None", "None", max_tokens)
                                 EXCEPT !.base_url = @ \o slashes]
    /\ RegistryIdle
    /\ ServeIdle

\* adapter.adapt_request(req)
Adapt ==
    /\ fw_pc = "idle"
    /\ fw_pc' = "adapted"
    /\ request_kwargs' = RequestKwargs(fw_backend, api_format, fw_request, fw_config,
                                       payload, fw_options)
    /\ UNCHANGED <<fw_backend, fw_config, fw_request, fw_status, fw_result, upstream_calls,
                   translator_invoked, payload, fw_options>>
    /\ UNCHANGED <<streamvars, regvars, servevars>>

NextAdapt == Adapt

SpecAdapt == InitAdapt /\ [][NextAdapt]_vars

\* ------------------------------------------- the Kimi stream translator
\* KimiResponseAdapter.adapt: generate() passes the lines of iter_lines()
\* through.  pc is "unstarted", "read" (inside the for statement),
\* "yield_chunk" (suspended at the yield), "done" (the iterator is used up),
\* "raised" or "closed" (close() of the generator).  out holds the byte
\* strings yielded.
InitKimi ==
    /\ api_format = "kimi"
    /\ log_completion \in BOOLEAN
    /\ pc = "unstarted"
    /\ chat_completion_id = "None"
    /\ tool_calls_count = 0
    /\ events = 0
    /\ buffer = <<>>
    /\ out = <<>>
    /\ wire = <<>>
    /\ received = <<>>
    /\ lines_sent = 0
    /\ upstream_closed = FALSE
    /\ raised = "none"
    /\ fw_pc = "done"
    /\ fw_backend = "kimi"
    /\ fw_config = ServeSettings
    /\ fw_request = ServeRequestShape
    /\ fw_status = 200
    /\ fw_result = [kind |-> "stream", status |-> 200, exc |-> "none"]
    /\ upstream_calls = 1
    /\ translator_invoked = TRUE
    /\ AdaptIdle
    /\ RegistryIdle
    /\ ServeIdle

\* next() on the generator, before its first line or at the yield
KimiResume ==
    /\ pc \in {"unstarted", "yield_chunk"}
    /\ pc' = "read"
    /\ UNCHANGED <<api_format, log_completion, chat_completion_id, tool_calls_count, events,
                   buffer, out, wire, received, lines_sent, upstream_closed, raised>>
    /\ UNCHANGED <<fwvars, regvars, servevars>>

\* iter_lines gives the next line, without its line end; one pass of the body
\* of the for statement
KimiNextLine ==
    /\ pc = "read"
    /\ HasLF(wire)
    /\ LET cut == SplitLine(wire)
           line == IF cut.line # <<>> /\ cut.line[Len(cut.line)] = CR
                   THEN SubSeq(cut.line, 1, Len(cut.line) - 1)
                   ELSE cut.line
       IN
       /\ wire' = cut.rest
       /\ received' = received \o SubSeq(wire, 1, FirstLF(wire))
       /\ IF line = <<>>
          THEN UNCHANGED <<pc, out, raised>>
          ELSE IF log_completion /\ ~Utf8Valid(line)
          THEN /\ pc' = "raised"
               /\ raised' = "UnicodeDecodeError"
               /\ out' = out
          ELSE /\ pc' = "yield_chunk"
               /\ out' = Append(out, line \o <<LF>>)
               /\ raised' = raised
    /\ UNCHANGED <<api_format, log_completion, chat_completion_id, tool_calls_count, events,
                   buffer, lines_sent, upstream_closed>>
    /\ UNCHANGED <<fwvars, regvars, servevars>>

\* iter_lines is used up: the for statement ends and generate() returns
KimiEndOfBody ==
    /\ pc = "read"
    /\ wire = <<>>
    /\ pc' = "done"
    /\ UNCHANGED <<api_format, log_completion, chat_completion_id, tool_calls_count, events,
                   buffer, out, wire, received, lines_sent, upstream_closed, raised>>
    /\ UNCHANGED <<fwvars, regvars, servevars>>

\* iter_lines raises: the read of the body failed
KimiReadFail ==
    /\ pc = "read"
    /\ pc' = "raised"
    /\ raised' = "ChunkedEncodingError"
    /\ UNCHANGED <<api_format, log_completion, chat_completion_id, tool_calls_count, events,
                   buffer, out, wire, received, lines_sent, upstream_closed>>
    /\ UNCHANGED <<fwvars, regvars, servevars>>

\* close() of the generator, before its first next() or at the yield:
\* generate() has no try statement
KimiAbandon ==
    /\ pc \in {"unstarted", "yield_chunk"}
    /\ pc' = "closed"
    /\ UNCHANGED <<api_format, log_completion, chat_completion_id, tool_calls_count, events,
                   buffer, out, wire, received, lines_sent, upstream_closed, raised>>
    /\ UNCHANGED <<fwvars, regvars, servevars>>

NextKimi ==
    \/ KimiResume
    \/ UpstreamSend
    \/ KimiNextLine
    \/ KimiEndOfBody
    \/ KimiReadFail
    \/ KimiAbandon

SpecKimi == InitKimi /\ [][NextKimi]_vars

\* ================================================================ claims
IsChunk(f) == f.kind = "chunk"
IsSentinel(f) == f.kind = "done"
IsFinish(f) == IsChunk(f) /\ f.finish_reason # "null"
IsRole(f) == IsChunk(f) /\ f.delta.k = "role"
IsToolChunk(f) == IsChunk(f) /\ f.delta.k = "tool_calls"
IsToolStart(f) == IsToolChunk(f) /\ f.delta.has_id
IsToolArgs(f) == IsToolChunk(f) /\ ~f.delta.has_id

FinishCount(o) == Cardinality({i \in 1..Len(o) : IsFinish(o[i])})
SentinelCount(o) == Cardinality({i \in 1..Len(o) : IsSentinel(o[i])})
RoleCount(o) == Cardinality({i \in 1..Len(o) : IsRole(o[i])})
ToolStartsBefore(o, i) == Cardinality({j \in 1..(i - 1) : IsToolStart(o[j])})

\* generate() ended and the consumer never closed it
ReadToTheEnd == pc = "exhausted" \/ (pc = "raised" /\ raised # "ClientClosedConnection")

\* C1: in the Messages API translator, whenever the consumer reads to the end
\* (whatever the upstream sent, also when the read of the body fails), the
\* output ends with the sentinel, which occurs exactly once.
C1_SentinelEndsEveryStream ==
    (api_format = "messages" /\ ReadToTheEnd) =>
        /\ out # <<>>
        /\ IsSentinel(out[Len(out)])
        /\ SentinelCount(out) = 1

\* C2: in the Messages API translator, when the upstream closes and no finish
\* chunk was emitted, the next frame is a finish chunk with reason tool_calls
\* if a tool_use block was opened and stop otherwise, and the sentinel comes
\* right after it, with LOG_COMPLETION set or not.
C2_FinishSynthesizedAtClose ==
    [][ /\ (api_format = "messages" /\ pc = "final" /\ FinishCount(out) = 0) =>
              /\ pc' = "yield_final"
              /\ out' = Append(out, BuildCompletionChunk(chat_completion_id, EmptyDelta,
                                      IF ToolStartsBefore(out, Len(out) + 1) > 0
                                      THEN "tool_calls" ELSE "stop"))
        /\ (api_format = "messages" /\ pc = "yield_final" /\ pc' = "yield_done") =>
              out' = Append(out, Sentinel)
      ]_vars

\* C3: in both translators a finish chunk is followed by nothing but the
\* sentinel: no second finish chunk and no delta chunk comes after it.
C3_FinishChunkIsLast ==
    \A i \in 1..Len(out) : \A j \in 1..Len(out) :
        (i < j /\ IsFinish(out[i])) => IsSentinel(out[j])

HelloStream ==
    Line(<<"{message_start}">>) \o Line(<<"{content_block_delta:text_delta:Hello}">>)
        \o Line(<<"{message_delta:end_turn}">>)

\* C4: for the upstream message_start, text_delta "Hello", message_delta
\* end_turn, close, the output is the four frames role chunk, content chunk
\* "Hello", finish chunk stop, sentinel.
C4_HelloStreamGivesFourFrames ==
    (api_format = "messages" /\ pc \in {"yield_done", "exhausted"} /\ received = HelloStream) =>
        out = << BuildCompletionChunk(chat_completion_id, RoleDelta, "null"),
                 BuildCompletionChunk(chat_completion_id, ContentDelta("Hello"), "null"),
                 BuildCompletionChunk(chat_completion_id, EmptyDelta, "stop"),
                 Sentinel >>

\* the read loop of generate() run on all the bytes as one input chunk
RECURSIVE OneChunkRun(_, _, _, _, _, _, _)
OneChunkRun(fmt, id, log, buf, ev_count, count, acc) ==
    IF ~HasLF(buf)
    THEN [buffer |-> buf, events |-> ev_count, count |-> count, out |-> acc, exc |-> "none"]
    ELSE LET r == LineStep(fmt, id, log, buf, ev_count, count) IN
         IF r.exc # "none"
         THEN [buffer |-> r.buffer, events |-> r.events, count |-> r.count,
               out |-> acc, exc |-> r.exc]
         ELSE OneChunkRun(fmt, id, log, r.buffer, r.events, r.count,
                          IF r.chunk # NoChunk THEN Append(acc, r.chunk) ELSE acc)

\* C5: in the Messages API translator the frames emitted for the bytes
\* received so far, and the sentinel, are those of the same bytes arriving as
\* a single input chunk, however the bytes were split into input chunks.
C5_SplitIndependent ==
    (api_format = "messages"
        /\ (pc \in {"read", "final", "yield_done", "exhausted"}
              \/ (pc = "raised" /\ raised \in {"UnicodeDecodeError", "AttributeError"}))) =>
        LET unsplit == OneChunkRun(api_format, chat_completion_id, log_completion,
                                   received, 0, 0, <<>>)
        IN
        /\ pc \in {"read", "final"} =>
              /\ unsplit.exc = "none"
              /\ out = unsplit.out
              /\ buffer = unsplit.buffer
              /\ events = unsplit.events
              /\ tool_calls_count = unsplit.count
        /\ pc \in {"yield_done", "exhausted"} =>
              out = unsplit.out \o FinalFrames(api_format, chat_completion_id,
                                               unsplit.events, unsplit.count)
        /\ pc = "raised" =>
              /\ unsplit.exc = raised
              /\ out = unsplit.out

\* an input chunk ended inside a two-byte character, after a chunk was emitted
C5_Witness ==
    /\ api_format = "messages"
    /\ pc = "read"
    /\ out # <<>>
    /\ buffer # <<>>
    /\ buffer[Len(buffer)] \in Utf8Lead

\* C6: in the Messages API translator the k-th tool_use block start (from 0)
\* is announced with index k, every input_json_delta after it and before the
\* next start carries k, and indices never decrease along the stream.
C6_ToolIndexStable ==
    api_format = "messages" =>
        \A i \in 1..Len(out) :
            IsToolChunk(out[i]) =>
                LET k == ToolStartsBefore(out, i) IN
                /\ IsToolStart(out[i]) => out[i].delta.index = k
                /\ (IsToolArgs(out[i]) /\ k > 0) => out[i].delta.index = k - 1
                /\ \A j \in 1..(i - 1) :
                      IsToolChunk(out[j]) =>
                          /\ out[j].delta.index <= out[i].delta.index
                          /\ IsToolStart(out[i]) => out[j].delta.index < out[i].delta.index

\* two tool_use blocks were opened and an argument fragment followed the second
C6_Witness ==
    /\ api_format = "messages"
    /\ \E i \in 1..Len(out) :
          IsToolArgs(out[i]) /\ ToolStartsBefore(out, i) = 2 /\ out[i].delta.index = 1

\* C7: in both translators a stream never carries a second role-announcement
\* chunk, however many message_start / response.created events arrive.
C7_RoleAnnouncedOnce == RoleCount(out) <= 1

\* a line with the data prefix whose rest is no event object
Malformed(line) ==
    /\ Strip(line) # <<>>
    /\ Head(Strip(line)) = DataPrefix
    /\ \/ ~Utf8Valid(line)
       \/ ~JsonLoads(Tail(Strip(line))).ok
       \/ JsonLoads(Tail(Strip(line))).v.j # "object"

\* C8: in the Messages API translator a data line that does not decode to an
\* event object yields no chunk and the loop goes on to the next line.
C8_MalformedLineIsSkipped ==
    [][ (api_format = "messages" /\ pc = "lines" /\ HasLF(buffer)
            /\ Malformed(SplitLine(buffer).line)) =>
           (out' = out /\ pc' = "lines" /\ raised' = "none")
      ]_vars

SuspensionPoints == {"unstarted", "yield_chunk", "yield_final", "yield_done"}

\* C9: when the consumer closes the stream at a suspension point, the
\* upstream response is closed, ClientClosedConnection is what surfaces, and
\* no byte of the body is read afterwards.
C9_AbandonClosesUpstream ==
    [][ /\ (pc \in SuspensionPoints /\ pc' \in {"raised", "closed_unstarted"}) =>
              (upstream_closed' /\ raised' = "ClientClosedConnection")
        /\ pc \in {"raised", "closed_unstarted"} => received' = received
      ]_vars

\* C10: for every adapter, an upstream status other than 200 makes forward
\* return an error response with status 400 for 401 and the upstream status
\* otherwise, and the stream translator is not invoked.
C10_NonSuccessGivesErrorResponse ==
    (fw_pc = "done" /\ upstream_calls > 0 /\ fw_status # 200) =>
        /\ fw_result.kind = "error_response"
        /\ fw_result.status = (IF fw_status = 401 THEN 400 ELSE fw_status)
        /\ ~translator_invoked

\* C11: for the Azure adapter, every request the translator accepts (also one
\* with no system message, no user field or no input items) and every status
\* other than 200 gives an error response, not an exception, and the tools
\* and input fields of its diagnostic body are redacted counts.
C11_AzureErrorPathReturnsRedacted ==
    (fw_backend = "azure" /\ fw_pc = "done" /\ upstream_calls > 0 /\ fw_status # 200) =>
        /\ fw_result.kind = "error_response"
        /\ fw_result.diag.tools = "redacted_count"
        /\ fw_result.diag.input = "redacted_count"

\* C12: one call of forward makes at most one upstream call: one when the
\* request translation succeeds and none when it raises, and neither an error
\* status nor a failure in the middle of the stream is followed by another.
C12_AtMostOneUpstreamCall ==
    /\ upstream_calls <= 1
    /\ fw_pc = "done" =>
          (upstream_calls = 1 <=>
              AdaptRequest(fw_backend, api_format, fw_request, fw_config).ok)

\* the read of the body failed after a chunk was emitted
C12_Witness ==
    /\ fw_pc = "done"
    /\ pc = "raised"
    /\ raised = "ChunkedEncodingError"
    /\ out # <<>>
    /\ upstream_calls = 1

\* a required secret or a required field of the model is absent
RequiredMissing ==
    \/ ~fw_config.api_key
    \/ fw_backend = "azure" /\ ~fw_config.reasoning_effort
    \/ fw_backend = "kimi" /\ ~fw_config.base_url
    \/ fw_backend = "anthropic" /\ api_format = "responses" /\ ~fw_config.base_url

\* C13: when the API key or a required field of the model (reasoning_effort
\* for Azure, base_url for the Responses format of the Anthropic adapter and
\* for Kimi) is absent, the translation raises a ConfigurationError and no
\* upstream call is made.
C13_MissingConfigRaisesConfigurationError ==
    (fw_pc = "done" /\ RequiredMissing) =>
        /\ fw_result.kind = "exception"
        /\ fw_result.exc \in ConfigurationErrors
        /\ upstream_calls = 0

\* every entry is a mapping with a backend that ModelConfig accepts and an
\* api_model
WellFormed(doc) ==
    /\ doc.kind = "models"
    /\ \A i \in 1..Len(doc.entries) :
          LET e == doc.entries[i] IN
          /\ e.value.kind = "mapping"
          /\ e.value.backend # "absent"
          /\ e.value.api_model # "absent"
          /\ ModelConfig(e.name, e.value.backend, e.value.api_model, "None", "None").ok

DocumentNames(doc) == [i \in 1..Len(doc.entries) |-> doc.entries[i].name]

SpecBackends == {"azure", "anthropic", "kimi"}

\* an entry that is no mapping, lacks backend or api_model, or has an unknown
\* backend
FaultyEntry(v) ==
    \/ v.kind # "mapping"
    \/ /\ v.kind = "mapping"
       /\ \/ v.backend = "absent"
          \/ v.api_model = "absent"
          \/ v.backend \notin SpecBackends \cup {"absent"}

\* C15: the load of a document that is missing, no mapping, without the
\* models key, or with a faulty entry fails with ServiceConfigurationError and
\* leaves no registry; a fault in an entry is reported with the model's name.
C15_FaultyDocumentIsRejected ==
    (op.kind = "init_registry"
        /\ \/ document.kind \in BrokenKinds
           \/ \E i \in 1..Len(document.entries) : FaultyEntry(document.entries[i].value)) =>
        /\ ~op.ok
        /\ op.exc = "ServiceConfigurationError"
        /\ ~registry.loaded
        /\ document.kind = "models" =>
              \E i \in 1..Len(document.entries) :
                  /\ op.model = document.entries[i].name
                  /\ FaultyEntry(document.entries[i].value)

\* the backends for which the factory returns an adapter
FactoryBackends(config) ==
    {b \in BackendTags : CreateAdapter([config EXCEPT !.backend = b]).ok}

AdapterOf(backend) ==
    CASE backend = "azure" -> "AzureAdapter"
      [] backend = "anthropic" -> "AnthropicAdapter"
      [] backend = "kimi" -> "KimiAdapter"
      [] OTHER -> "None"

\* C17: ModelConfig construction succeeds for each of the three backend tags
\* azure, anthropic and kimi, and the factory returns the adapter of the
\* matching variant for each of them.
C17_ThreeBackendsAccepted ==
    /\ (op.kind = "construct" /\ op.backend \in SpecBackends) => op.ok
    /\ (op.kind = "create" /\ op.config.backend \in SpecBackends) =>
          (op.ok /\ op.adapter = AdapterOf(op.config.backend))

\* the entry of the document with the given name
EntryOf(doc, name) ==
    doc.entries[CHOOSE i \in 1..Len(doc.entries) : doc.entries[i].name = name].value

\* C18: the config returned by lookup holds the thinking budget and the
\* api_format of the registry entry, so that the translated request carries
\* thinking.budget_tokens = B and the adapter uses the translator pair the
\* entry names.
C18_BudgetAndFormatReachTheConfig ==
    /\ (op.kind = "lookup" /\ op.ok) =>
          LET e == EntryOf(document, op.name) IN
          /\ e.thinking_budget # "absent" => op.config.thinking_budget = e.thinking_budget
          /\ e.api_format # "absent" => op.config.api_format = e.api_format
    /\ (op.kind = "create" /\ op.via = "lookup" /\ op.ok /\ op.adapter = "AnthropicAdapter") =>
          LET e == EntryOf(document, op.config.name) IN
          (e.kind = "mapping" /\ e.backend = "anthropic" /\ e.api_format # "absent") =>
              op.pair = e.api_format
    /\ (op.kind = "translate" /\ op.via = "lookup") =>
          LET e == EntryOf(document, op.config.name) IN
          e.thinking_budget # "absent" =>
              op.thinking = [type |-> "enabled", budget_tokens |-> e.thinking_budget]

\* C19: once the registry is built, no step of request handling (lookup,
\* list of names, adapter creation, translation, forward, streaming, error
\* report), in any interleaving of two requests, changes the registry.
C19_RegistryIsNeverWritten ==
    [][registry.loaded => registry' = registry]_vars

\* both requests were served from the registry: one got an error response,
\* the other a stream that was read to its end
C19_Witness ==
    /\ registry.loaded
    /\ \E r1 \in Requests, r2 \in Requests :
          /\ requests[r1].pc = "done"
          /\ requests[r1].result = "error_response"
          /\ requests[r2].pc = "done"
          /\ requests[r2].result = "stream"
          /\ Len(requests[r2].out) > 2

IsPrefix(s, t) == Len(s) <= Len(t) /\ s = SubSeq(t, 1, Len(s))

\* C20: under every interleaving of two requests, the chunks of each
\* response are those of the request running alone on the bytes it
\* received: one identifier, tool-call indices from 0, its own finish reason.
C20_RequestsDoNotInterfere ==
    \A r \in Requests :
        requests[r].pc \in {"read", "lines", "done"} /\ requests[r].fmt # "none" =>
            \E id \in ServeIds :
                LET alone == OneChunkRun(requests[r].fmt, id, log_completion,
                                         requests[r].received, 0, 0, <<>>)
                IN
                /\ alone.exc = "none"
                /\ requests[r].pc = "read" =>
                      /\ requests[r].out = alone.out
                      /\ requests[r].buffer = alone.buffer
                /\ requests[r].pc = "lines" => IsPrefix(requests[r].out, alone.out)
                /\ requests[r].pc = "done" =>
                      requests[r].out = alone.out \o FinalFrames(requests[r].fmt, id,
                                                                 alone.events, alone.count)

\* both requests are in the middle of their streams and each has emitted an
\* argument fragment of a tool call
C20_Witness ==
    \A r \in Requests :
        /\ requests[r].pc \in {"read", "lines"}
        /\ requests[r].sent = 2
        /\ \E i \in 1..Len(requests[r].out) : IsToolArgs(requests[r].out[i])

\* the positions of the line terminators in the bytes, and the n-th complete line
LFPositions(bytes) == {i \in 1..Len(bytes) : bytes[i] = LF}
NthLF(bytes, n) ==
    IF n = 0 THEN 0
    ELSE CHOOSE i \in LFPositions(bytes) :
            Cardinality({j \in LFPositions(bytes) : j <= i}) = n
CompleteLines(bytes) ==
    [n \in 1..Cardinality(LFPositions(bytes)) |->
        SubSeq(bytes, NthLF(bytes, n - 1) + 1, NthLF(bytes, n) - 1)]

\* the line carries a Messages API event for which a chunk is emitted
ProducesChunk(line) ==
    /\ Utf8Valid(line)
    /\ Truthy(ParseSseLine(line))
    /\ ParseSseLine(line).j = "object"
    /\ HandleAnthropicEvent("id", ParseSseLine(line), 0).chunk # NoChunk

\* the chunk is the translation of the event of the line
Corresponds(chunk, line) ==
    \E c \in 0..(MaxLines + 1) :
        chunk = HandleAnthropicEvent(chat_completion_id, ParseSseLine(line), c).chunk

\* C21: in the Messages API translator the i-th chunk emitted is the
\* translation of the i-th chunk-producing event received, for interleaved
\* text, thinking and tool-call events too: while the body is read the output
\* is the translations of the producing events in their order, none merged or
\* held back once its line is complete, and the output only grows at its end.
C21_ChunksFollowEventOrder ==
    /\ [](api_format = "messages" /\ pc \in {"read", "lines", "yield_chunk"} =>
            LET producing == SelectSeq(CompleteLines(received), ProducesChunk) IN
            /\ Len(out) <= Len(producing)
            /\ \A i \in 1..Len(out) : Corresponds(out[i], producing[i])
            /\ pc = "read" => Len(out) = Len(producing))
    /\ [][api_format = "messages" => IsPrefix(out, out')]_vars

\* a text chunk, a thinking chunk and a tool-call chunk were emitted, in the
\* order of their events
C21_Witness ==
    /\ api_format = "messages"
    /\ pc = "read"
    /\ Len(out) = 3
    /\ out[1].delta.k = "content"
    /\ out[2].delta.k = "thinking"
    /\ out[3].delta.k = "tool_calls"

\* C22: in both translators the identifier is set once per response, when
\* generate() starts, to a value _create_chat_completion_id returns; every
\* chunk of the response, the synthesized finish chunk included, carries that
\* identifier and the logical model name, never the upstream api_model.
C22_OneIdentifierAndInboundModel ==
    /\ [](\A i \in 1..Len(out) :
            IsChunk(out[i]) =>
                /\ out[i].id = chat_completion_id
                /\ out[i].id \in Ids
                /\ out[i].model = InboundModel
                /\ out[i].model \notin ApiModelValues)
    /\ [][chat_completion_id # "None" => chat_completion_id' = chat_completion_id]_vars

\* a Responses API stream ended with the synthesized finish chunk and the
\* sentinel after a content chunk
C22_Witness ==
    /\ api_format = "responses"
    /\ pc = "exhausted"
    /\ Len(out) >= 3
    /\ IsChunk(out[1]) /\ out[1].delta.k = "content"
    /\ IsFinish(out[Len(out) - 1])
    /\ out[Len(out) - 1] = BuildCompletionChunk(chat_completion_id, EmptyDelta, "stop")
    /\ FinishCount(out) = 1

\* the Messages API translator has translated the request
MessagesTranslated ==
    fw_backend = "anthropic" /\ fw_pc = "adapted" /\ request_kwargs.kind = "kwargs"

IsSystemRole(msg) == msg.role \in {"system", "developer"}

\* the texts of the system and developer messages, in the order of the request
SystemTexts(messages) ==
    LET sys == SelectSeq(messages, IsSystemRole)
        TextsOf(msg) ==
            CASE msg.content.t = "str" -> <<msg.content.text>>
              [] msg.content.t = "list" ->
                   LET texts == SelectSeq(msg.content.items, LAMBDA item : item.type = "text")
                   IN [i \in 1..Len(texts) |-> texts[i].text]
              [] OTHER -> <<>>
        all[n \in 0..Len(sys)] == IF n = 0 THEN <<>> ELSE all[n - 1] \o TextsOf(sys[n])
    IN all[Len(sys)]

\* the pieces of a text between its blank lines
RECURSIVE BlankLineSeparated(_)
BlankLineSeparated(text) ==
    IF \A i \in 1..Len(text) : text[i] # "\\n\\n"
    THEN <<text>>
    ELSE LET k == CHOOSE i \in 1..Len(text) :
                     text[i] = "\\n\\n" /\ \A j \in 1..(i - 1) : text[j] # "\\n\\n"
         IN <<SubSeq(text, 1, k - 1)>> \o BlankLineSeparated(SubSeq(text, k + 1, Len(text)))

\* C23: in a request the Messages API translator has translated, no message
\* of the translated list has role system or developer; the system field is
\* the texts of those messages in their order with a blank line between them
\* (and is left out when that text is empty); a request of one system message
\* and one user message with a text content gives a list of one message, with
\* role user and the user's content.
C23_SystemMessagesMoveToSystemField ==
    MessagesTranslated =>
        LET json == request_kwargs.json
            texts == SystemTexts(payload.messages)
        IN
        /\ \A j \in 1..Len(json.messages) : ~IsSystemRole(json.messages[j])
        /\ IF texts = <<>> \/ texts = << <<>> >>
           THEN "system" \notin json.keys
           ELSE "system" \in json.keys /\ BlankLineSeparated(json.system) = texts
        /\ \A s \in 1..Len(payload.messages) : \A u \in 1..Len(payload.messages) :
              (Len(payload.messages) = 2
                  /\ payload.messages[s].role = "system"
                  /\ payload.messages[u].role = "user"
                  /\ payload.messages[u].content.t = "str") =>
                 json.messages = <<[role |-> "user", content |-> payload.messages[u].content]>>

\* a system message of two texts came before a user message
C23_Witness ==
    /\ MessagesTranslated
    /\ Len(payload.messages) = 2
    /\ payload.messages[1].role = "system"
    /\ payload.messages[2].role = "user"
    /\ payload.messages[2].content.t = "str"
    /\ Len(request_kwargs.json.messages) = 1
    /\ Len(request_kwargs.json.system) = 3

\* the place in the translated list of the i-th message of the request
TranslatedPosition(messages, i) ==
    Cardinality({k \in 1..i : ~IsSystemRole(messages[k])})

\* C24: for every assistant message with tool calls, whatever its content
\* is, the Messages API translator succeeds and the translated list holds at
\* its place an assistant message whose content is a list that ends with one
\* tool_use part per call, in the calls' order, with their ids and names.
C24_ToolCallsBecomeToolUseParts ==
    (fw_backend = "anthropic" /\ fw_pc = "adapted") =>
        \A i \in 1..Len(payload.messages) :
            LET msg == payload.messages[i]
                n == Len(msg.tool_calls)
                j == TranslatedPosition(payload.messages, i)
            IN
            (msg.role = "assistant" /\ n > 0) =>
                /\ request_kwargs.kind = "kwargs"
                /\ Len(request_kwargs.json.messages) >= j
                /\ LET translated == request_kwargs.json.messages[j] IN
                   /\ translated.role = "assistant"
                   /\ translated.content.t = "list"
                   /\ Len(translated.content.items) >= n
                   /\ \A c \in 1..n :
                         LET part == translated.content.items[
                                        Len(translated.content.items) - n + c]
                         IN /\ part.type = "tool_use"
                            /\ part.id = msg.tool_calls[c].id
                            /\ part.name = msg.tool_calls[c].name

\* the image part is a data: URL with a comma
IsDataUrlPart(item) ==
    /\ item.type = "image_url"
    /\ Len(item.url) >= 2 /\ item.url[1] = "data" /\ item.url[2] = ":"
    /\ \E i \in 1..Len(item.url) : item.url[i] = ","

\* C25: for every multi-part content the Messages API translator translates,
\* the translated content holds no image_url part: the text parts are kept in
\* order, each data: URL with a comma has become a base64 image part, and
\* every other image part is gone, also when all parts of the list are such.
C25_NoImageUrlPartIsLeft ==
    MessagesTranslated =>
        \A i \in 1..Len(payload.messages) :
            LET msg == payload.messages[i]
                j == TranslatedPosition(payload.messages, i)
            IN
            (msg.role = "user" /\ msg.content.t = "list") =>
                LET items == request_kwargs.json.messages[j].content.items IN
                /\ \A k \in 1..Len(items) : items[k].type # "image_url"
                /\ SelectSeq(items, LAMBDA item : item.type = "text")
                      = SelectSeq(msg.content.items, LAMBDA item : item.type = "text")
                /\ Len(SelectSeq(items, LAMBDA item : item.type = "image"))
                      = Len(SelectSeq(msg.content.items, IsDataUrlPart))
                /\ \A k \in 1..Len(items) :
                      items[k].type = "image" => items[k].source.type = "base64"

\* the values each policy may take; "None" leaves the choice to the default
\* of the environment
SummaryLevels == {"auto", "detailed", "concise"}
VerbosityLevels == {"low", "medium", "high"}
TruncationStrategies == {"auto", "disabled"}

\* C26: in the Responses API (Azure) translator a summary, verbosity or
\* truncation value outside its set of allowed values makes the translation
\* fail with a configuration error that lists the allowed values; no such
\* value is accepted or left out of the request in silence.
C26_PolicyValuesAreValidated ==
    (fw_backend = "azure" /\ fw_pc = "adapted") =>
        /\ fw_options.summary_level \notin SummaryLevels \cup {"None"} =>
              /\ request_kwargs.kind = "exception"
              /\ request_kwargs.exc \in ConfigurationErrors
              /\ request_kwargs.allowed = SummaryLevels
        /\ fw_options.verbosity_level \notin VerbosityLevels \cup {"None"} =>
              /\ request_kwargs.kind = "exception"
              /\ request_kwargs.exc \in ConfigurationErrors
              /\ request_kwargs.allowed # {}
        /\ fw_options.truncation_strategy \notin TruncationStrategies \cup {"None"} =>
              /\ request_kwargs.kind = "exception"
              /\ request_kwargs.exc \in ConfigurationErrors
              /\ request_kwargs.allowed # {}

\* the keys the pass-through translator forwards as they are
ForwardedKeys == {"messages", "tools", "tool_choice", "temperature", "top_p"}

\* C29: in the pass-through (Kimi) translator the messages, tools,
\* tool_choice, temperature and top_p of the upstream body are those of the
\* request, and are absent when the request has none; the only keys the
\* translator sets itself are the model (api_model) and the max_tokens
\* default of the model config.
C29_PassThroughForwardsUnchanged ==
    (fw_backend = "kimi" /\ fw_pc = "adapted" /\ request_kwargs.kind = "kwargs") =>
        LET json == request_kwargs.json IN
        /\ \A k \in ForwardedKeys : k \in json.keys <=> k \in payload.keys
        /\ "messages" \in payload.keys => json.messages = payload.messages
        /\ "tools" \in payload.keys => json.tools = payload.tools
        /\ "tool_choice" \in payload.keys => json.tool_choice = payload.tool_choice
        /\ "temperature" \in payload.keys => json.temperature = payload.temperature
        /\ "top_p" \in payload.keys => json.top_p = payload.top_p
        /\ json.model = "api-model-x"
        /\ "max_tokens" \in payload.keys => json.max_tokens = payload.max_tokens
        /\ ("max_tokens" \notin payload.keys /\ "max_tokens" \in json.keys) =>
              json.max_tokens = fw_options.max_tokens
        /\ json.keys \ payload.keys \subseteq {"model", "max_tokens"}

\* C29, amended: the tools, tool_choice, temperature and top_p of the
\* upstream body are those of the request and are absent when the request
\* has none; messages are those of the request, and the empty list when the
\* request has none; the keys the translator sets itself are the model, the
\* max_tokens default of the model config, and stream, true when the request
\* does not give it.
C29_PassThroughForwardsWithDefaults ==
    (fw_backend = "kimi" /\ fw_pc = "adapted" /\ request_kwargs.kind = "kwargs") =>
        LET json == request_kwargs.json IN
        /\ \A k \in ForwardedKeys \ {"messages"} : k \in json.keys <=> k \in payload.keys
        /\ "messages" \in json.keys
        /\ json.messages = (IF "messages" \in payload.keys THEN payload.messages ELSE <<>>)
        /\ "tools" \in payload.keys => json.tools = payload.tools
        /\ "tool_choice" \in payload.keys => json.tool_choice = payload.tool_choice
        /\ "temperature" \in payload.keys => json.temperature = payload.temperature
        /\ "top_p" \in payload.keys => json.top_p = payload.top_p
        /\ json.model = "api-model-x"
        /\ "max_tokens" \in payload.keys => json.max_tokens = payload.max_tokens
        /\ ("max_tokens" \notin payload.keys /\ "max_tokens" \in json.keys) =>
              json.max_tokens = fw_options.max_tokens
        /\ "stream" \in json.keys
        /\ json.stream = (IF "stream" \in payload.keys THEN payload.stream ELSE "true")
        /\ json.keys \ payload.keys \subseteq {"model", "max_tokens", "stream", "messages"}

\* a request with messages, tools and a temperature, without max_tokens and
\* stream, for a model with a max_tokens default
C29_Witness ==
    /\ fw_backend = "kimi"
    /\ fw_pc = "adapted"
    /\ request_kwargs.kind = "kwargs"
    /\ payload.keys = {"model", "messages", "tools", "temperature"}
    /\ fw_options.max_tokens = "4096"
    /\ request_kwargs.json.keys =
          {"model", "messages", "tools", "temperature", "max_tokens", "stream"}

\* C30: a request whose model is absent from the registry is answered with
\* status 400 and an invalid_request_error body with code model_not_found
\* whose message says the model is not configured; no adapter is created and
\* no upstream call is made for it, and the answer differs from the answer to
\* every configuration error
C30_UnknownModelIsRejected ==
    /\ \A r \in Requests :
          (requests[r].looked_up /\ requests[r].model \notin DOMAIN registry.models) =>
              /\ requests[r].pc = "done"
              /\ requests[r].reply.status = 400
              /\ requests[r].reply.body = "json_error"
              /\ requests[r].reply.type = "invalid_request_error"
              /\ requests[r].reply.code = "model_not_found"
              /\ \E i \in 1..Len(requests[r].reply.message) - 1 :
                    /\ requests[r].reply.message[i] = requests[r].model
                    /\ requests[r].reply.message[i + 1]
                          = "' is not configured. Available models: "
              /\ requests[r].inst = 0
              /\ requests[r].status = 0
              /\ requests[r].out = <<>>
              /\ \A q \in Requests :
                    requests[q].result = "configuration_error"
                        => requests[q].reply # requests[r].reply
    /\ allocated = Cardinality({r \in Requests : requests[r].inst # 0})
    /\ \A i \in Instances :
          adapters[i] # NoAdapter => adapters[i].model \in DOMAIN registry.models

C30_Witness ==
    /\ requests["r1"].model = "unknown-model"
    /\ requests["r1"].reply.code = "model_not_found"
    /\ requests["r2"].result = "configuration_error"
    /\ requests["r2"].reply.body = "text"
    /\ allocated = 1

\* C27: every byte string the pass-through translator yields is one frame
\* data: <JSON> that ends with a blank line (two line terminators), and when
\* the upstream body is used up the output ends with the frame data: [DONE]
\* and a blank line, whether or not the upstream sent its own sentinel
C27_FramesEndWithBlankLineAndSentinel ==
    /\ \A i \in 1..Len(out) :
          /\ Len(out[i]) >= 4
          /\ out[i][1] = DataPrefix
          /\ out[i][Len(out[i])] = LF
          /\ out[i][Len(out[i]) - 1] = LF
    /\ pc = "done" =>
          /\ out # <<>>
          /\ out[Len(out)] = <<DataPrefix, "[DONE]", LF, LF>>

\* C28: no stream of the pass-through translator ends - the body used up, a
\* failure while reading it, the client gone - with the upstream response
\* not closed
C28_UpstreamReleasedOnEveryEnd ==
    pc \in {"done", "raised", "closed"} => upstream_closed

\* C31: a request whose body has no model field, or is not a JSON object, is
\* answered with status 400 and the message Missing 'model' field in request,
\* with no registry lookup, no adapter created and no upstream call
C31_MissingModelIsRejected ==
    \A r \in Requests :
        (requests[r].body.kind \in {"not_json", "array"}
            \/ (requests[r].body.kind = "object" /\ requests[r].body.model = "absent")) =>
            /\ requests[r].pc = "done"
            /\ requests[r].reply.status = 400
            /\ requests[r].reply.message = <<"Missing 'model' field in request">>
            /\ ~requests[r].looked_up
            /\ requests[r].model = "None"
            /\ requests[r].inst = 0
            /\ requests[r].status = 0
            /\ requests[r].out = <<>>

C31_Witness ==
    /\ requests["r1"].body = [kind |-> "not_json", model |-> "gpt-high"]
    /\ requests["r1"].reply.status = 400
    /\ requests["r2"].body = [kind |-> "object", model |-> "absent"]
    /\ requests["r2"].result = "missing_model"

\* C32: the max_tokens of the Messages request body is the request's
\* max_tokens when the request gives one, otherwise the model config's when
\* it is configured, otherwise 64000, and the key is never absent
C32_TokenCeilingFallsBack ==
    (fw_backend = "anthropic" /\ fw_pc = "adapted" /\ request_kwargs.kind = "kwargs") =>
        /\ "max_tokens" \in request_kwargs.json.keys
        /\ request_kwargs.json.max_tokens =
              (IF "max_tokens" \in payload.keys /\ payload.max_tokens # "null"
               THEN payload.max_tokens
               ELSE IF fw_options.max_tokens # "None" THEN fw_options.max_tokens
               ELSE "64000")

\* the text of a message content: the string, or the texts of the text parts
TextOfContent(content) ==
    CASE content.t = "str" -> content.text
      [] content.t = "list" ->
           LET texts == SelectSeq(content.items, LAMBDA item : item.type = "text")
               all[n \in 0..Len(texts)] == IF n = 0 THEN <<>> ELSE all[n - 1] \o texts[n].text
           IN all[Len(texts)]
      [] OTHER -> <<>>

\* kind and key of the items that the messages ask for, in the order of the
\* messages and of their calls, when the messages in keep give a content item
RECURSIVE ItemsAskedFor(_, _, _)
ItemsAskedFor(messages, i, keep) ==
    IF i > Len(messages) THEN <<>>
    ELSE LET m == messages[i]
             own == IF IsSystemRole(m) THEN <<>>
                    ELSE IF m.role = "tool"
                    THEN <<[kind |-> "function_call_output", key |-> m.tool_call_id]>>
                    ELSE (IF i \in keep THEN <<[kind |-> "message", key |-> m.role]>>
                          ELSE <<>>)
                         \o [c \in 1..Len(m.tool_calls) |->
                                 [kind |-> "function_call", key |-> m.tool_calls[c].id]]
         IN own \o ItemsAskedFor(messages, i + 1, keep)

\* C33: in a request the Azure translator has translated, instructions is the
\* texts of the system and developer messages with a blank line between them,
\* none of them gives an input item, each tool message gives one
\* function_call_output item with its tool_call_id, each tool call of an
\* assistant one function_call item with its id, and the input items are in
\* the order of the messages and calls they come from
C33_AzureInputFollowsTheMessages ==
    (fw_backend = "azure" /\ fw_pc = "adapted" /\ request_kwargs.kind = "kwargs") =>
        LET json == request_kwargs.json
            ms == payload.messages
            sys == SelectSeq(ms, IsSystemRole)
            KindAndKey(item) ==
                [kind |-> item.type,
                 key |-> IF item.type = "message" THEN item.role ELSE item.call_id]
        IN
        /\ IF sys = <<>>
           THEN json.instructions.t = "null"
           ELSE /\ json.instructions.t = "str"
                /\ BlankLineSeparated(json.instructions.text)
                      = [k \in 1..Len(sys) |-> TextOfContent(sys[k].content)]
        /\ \E keep \in SUBSET {i \in 1..Len(ms) : ms[i].role \in {"user", "assistant"}} :
              [k \in 1..Len(json.input) |-> KindAndKey(json.input[k])]
                  = ItemsAskedFor(ms, 1, keep)

C33_Witness ==
    /\ fw_backend = "azure" /\ fw_pc = "adapted" /\ request_kwargs.kind = "kwargs"
    /\ Len(payload.messages) = 2
    /\ payload.messages[1].role = "assistant"
    /\ payload.messages[1].content.t = "null"
    /\ Len(payload.messages[1].tool_calls) = 2
    /\ payload.messages[2].role = "tool"
    /\ Len(request_kwargs.json.input) = 3
    /\ request_kwargs.json.input[2].call_id = "call_2"
    /\ request_kwargs.json.input[3].type = "function_call_output"

\* a base URL without the slash at its end
WithoutTrailingSlash(base_url) ==
    IF base_url # <<>> /\ base_url[Len(base_url)] = "/"
    THEN SubSeq(base_url, 1, Len(base_url) - 1)
    ELSE base_url

\* C34: the request the pass-through translator builds has method POST, the
\* URL that is exactly the base_url of the model without its trailing slash
\* followed by /chat/completions, an Authorization header, and the api_model
\* as the model of its body
C34_PassThroughUrlIsBaseUrlAndPath ==
    (fw_backend = "kimi" /\ fw_pc = "adapted" /\ request_kwargs.kind = "kwargs") =>
        /\ request_kwargs.method = "POST"
        /\ request_kwargs.url
              = WithoutTrailingSlash(fw_options.base_url) \o <<"/chat/completions">>
        /\ \E h \in request_kwargs.headers : h.name = "Authorization"
        /\ request_kwargs.json.model = "api-model-x"

MessageDeltaLine(stop_reason) == <<DataPrefix, "{message_delta:" \o stop_reason \o "}">>

\* C35: in the Messages API translator a message_delta line with stop reason
\* end_turn appends a finish chunk stop, one with tool_use a finish chunk
\* tool_calls, one with another stop reason appends nothing; and a stream
\* that held such a line has, once the sentinel is out, exactly one finish
\* chunk, right before the sentinel.
C35_StopReasonsBecomeFinishChunks ==
    /\ [][ (api_format = "messages" /\ pc = "lines" /\ HasLF(buffer)) =>
              LET line == SubSeq(buffer, 1, NthLF(buffer, 1) - 1) IN
              /\ line = MessageDeltaLine("end_turn") =>
                    out' = Append(out, BuildCompletionChunk(chat_completion_id,
                                                            EmptyDelta, "stop"))
              /\ line = MessageDeltaLine("tool_use") =>
                    out' = Append(out, BuildCompletionChunk(chat_completion_id,
                                                            EmptyDelta, "tool_calls"))
              /\ line = MessageDeltaLine("max_tokens") => out' = out
         ]_vars
    /\ []( (/\ api_format = "messages"
            /\ pc \in {"yield_done", "exhausted"}
            /\ \E n \in 1..Len(CompleteLines(received)) :
                  CompleteLines(received)[n] = MessageDeltaLine("max_tokens")) =>
               /\ FinishCount(out) = 1
               /\ Len(out) >= 2
               /\ IsFinish(out[Len(out) - 1])
               /\ IsSentinel(out[Len(out)]) )

\* C36: whenever the Messages API translator waits for the next input chunk,
\* its buffer holds no line terminator and is the bytes received after the
\* last one, and a chunk is out for every complete line received that gives
\* one; what is emitted after the body ended is a finish chunk or the
\* sentinel only.
C36_NothingHeldBackWhileWaiting ==
    /\ []((api_format = "messages" /\ pc = "read") =>
            LET complete == Cardinality(LFPositions(received)) IN
            /\ LFPositions(buffer) = {}
            /\ buffer = SubSeq(received, NthLF(received, complete) + 1, Len(received))
            /\ Len(out) = Len(SelectSeq(CompleteLines(received), ProducesChunk)))
    /\ [][(api_format = "messages" /\ pc \in {"final", "yield_final"}) =>
            \A i \in (Len(out) + 1)..Len(out') : IsFinish(out'[i]) \/ IsSentinel(out'[i])]_vars

\* two lines gave their chunks and the first bytes of a third are buffered
C36_Witness ==
    /\ api_format = "messages"
    /\ pc = "read"
    /\ Len(out) = 2
    /\ buffer # <<>>
    /\ Cardinality(LFPositions(received)) = 2

\* C37: in both translators, when the body has ended and the sentinel is out,
\* the bytes received after the last line terminator are still in the buffer
\* and gave no chunk: the output is the chunks of the complete lines, then
\* the closing finish chunk and the sentinel only, and the reason of the
\* closing finish chunk is that of the complete lines (tool_calls when they
\* opened a tool_use block, else stop), whatever the trailing bytes are.
C37_TrailingBytesAreNotTranslated ==
    pc \in {"yield_done", "exhausted"} =>
        LET last == NthLF(received, Cardinality(LFPositions(received)))
            run == OneChunkRun(api_format, chat_completion_id, log_completion,
                               SubSeq(received, 1, last), 0, 0, <<>>)
        IN
        /\ buffer = SubSeq(received, last + 1, Len(received))
        /\ Len(out) > Len(run.out)
        /\ SubSeq(out, 1, Len(run.out)) = run.out
        /\ \A i \in (Len(run.out) + 1)..Len(out) : IsFinish(out[i]) \/ IsSentinel(out[i])
        /\ \A i \in (Len(run.out) + 1)..Len(out) :
              IsFinish(out[i]) =>
                  out[i].finish_reason = (IF run.count > 0 THEN "tool_calls" ELSE "stop")

\* the upstream closed after a message_start line and an unterminated
\* message_delta tool_use
C37_Witness ==
    /\ api_format = "messages"
    /\ pc = "yield_done"
    /\ buffer = MessageDeltaLine("tool_use")
    /\ Len(out) = 3
    /\ IsRole(out[1])
    /\ IsFinish(out[2]) /\ out[2].finish_reason = "stop"

\* C38: in the Messages API translator the index of every tool_calls chunk
\* is at least 0 and at most the number of tool_use blocks opened up to that
\* chunk, less one; an input_json_delta that comes before any tool_use block
\* gives no chunk with a negative index.
C38_ToolIndexWithinOpenedBlocks ==
    api_format = "messages" =>
        \A i \in 1..Len(out) :
            IsToolChunk(out[i]) =>
                /\ out[i].delta.index >= 0
                /\ out[i].delta.index <= ToolStartsBefore(out, i + 1) - 1

\* C39: for every backend, no header of the upstream request carries the
\* value of the Authorization header the client sent, however the client
\* wrote the name; the secret the upstream request carries is the backend's
\* own (api-key, x-api-key, or Authorization with the configured key); and
\* the Azure translator, which copies the headers of the client, hands on no
\* Authorization and no Host header in any letter case.
C39_ClientCredentialIsNotForwarded ==
    (fw_pc = "adapted" /\ request_kwargs.kind = "kwargs") =>
        LET sent == {h \in payload.headers : h.canon = "authorization"}
            upstream == request_kwargs.headers
        IN
        /\ \A h \in upstream : \A c \in sent : h.value # c.value
        /\ CASE fw_backend = "azure" ->
                   /\ \A h \in upstream : h.canon \notin {"authorization", "host"}
                   /\ \E h \in upstream : h.name = "api-key" /\ h.value = "AZURE_API_KEY"
                   /\ \A h \in payload.headers :
                         h.canon \notin {"authorization", "host"} =>
                             \E u \in upstream : u.canon = h.canon /\ u.value = h.value
             [] fw_backend = "kimi" ->
                   \A h \in upstream :
                       h.canon = "authorization" => h.value = "Bearer AZURE_API_KEY"
             [] OTHER ->
                   /\ \A h \in upstream : h.canon \notin {"authorization", "host"}
                   /\ \E h \in upstream : h.name = "x-api-key" /\ h.value = "ANTHROPIC_API_KEY"

\* the client wrote authorization and HOST, and the Azure translator handed
\* on its user-agent header only, with the api-key
C39_Witness ==
    /\ fw_backend = "azure"
    /\ fw_pc = "adapted"
    /\ request_kwargs.kind = "kwargs"
    /\ \E h \in payload.headers : h.name = "authorization"
    /\ \E h \in payload.headers : h.name = "HOST"
    /\ {h.canon : h \in request_kwargs.headers} = {"user-agent", "api-key"}

====
